---- MODULE Spec2Model ----
(***************************************************************************)
(* Model of the heuristic response-assessment engine of Versant            *)
(* (src/lib/scoring.ts): the text analyzers, the optional audio branch,    *)
(* the Score Combiner behind assessResponse, and the section / overall     *)
(* aggregator.                                                             *)
(*                                                                         *)
(* Text is a sequence of one-character strings.  The alphabet of the model *)
(* is: the letters a-z and A-Z, the space, and the marks . ! ? , '         *)
(* (no digits and no underscore, so a "word character" of a JavaScript     *)
(* regular expression is a letter, and \s is the space).                   *)
(*                                                                         *)
(* A JavaScript number that need not be an integer is kept exact as a      *)
(* fraction num/den (den > 0); comparisons against decimal literals are    *)
(* cross-multiplied.                                                       *)
(***************************************************************************)
EXTENDS Integers, Sequences, FiniteSets, TLC

\* ------------------------------------------------------------------------
\* Characters and the string primitives of JavaScript used by scoring.ts
\* ------------------------------------------------------------------------

LowerLetters ==
  <<"a","b","c","d","e","f","g","h","i","j","k","l","m",
    "n","o","p","q","r","s","t","u","v","w","x","y","z">>

UpperLetters ==
  <<"A","B","C","D","E","F","G","H","I","J","K","L","M",
    "N","O","P","Q","R","S","T","U","V","W","X","Y","Z">>

LowerSet == {LowerLetters[i] : i \in 1..26}

UpperSet == {UpperLetters[i] : i \in 1..26}

\* \s of the regular expressions
Whitespace == {" "}

\* [.!?] of the regular expressions
SentenceEnd == {".", "!", "?"}

\* \w of the regular expressions, on the model's alphabet
IsWordChar(ch) == ch \in LowerSet \cup UpperSet

\* String.prototype.toLowerCase, one character
LowerChar(ch) ==
  IF ch \in UpperSet
    THEN LowerLetters[CHOOSE i \in 1..26 : UpperLetters[i] = ch]
    ELSE ch

\* String.prototype.toLowerCase
toLowerCase(text) == [i \in 1..Len(text) |-> LowerChar(text[i])]

\* String.prototype.trim
trim(text) ==
  LET nonWs == {i \in 1..Len(text) : text[i] \notin Whitespace}
  IN IF nonWs = {} THEN <<>>
     ELSE LET lo == CHOOSE i \in nonWs : \A j \in nonWs : i <= j
              hi == CHOOSE i \in nonWs : \A j \in nonWs : j <= i
          IN SubSeq(text, lo, hi)

\* The k-th smallest element of a finite set of integers
KthSmallest(S, k) ==
  CHOOSE i \in S : Cardinality({j \in S : j < i}) = k - 1

\* String.prototype.split(/[sep]+/): the pieces between the maximal runs of
\* separator characters, with the empty pieces JavaScript keeps at the two
\* ends ("" gives [""], " a" gives ["", "a"], "a " gives ["a", ""]).
SplitOn(text, sep) ==
  LET n == Len(text)
      starts == {i \in 1..n : text[i] \notin sep
                                /\ (i = 1 \/ text[i - 1] \in sep)}
      ends == {i \in 1..n : text[i] \notin sep
                              /\ (i = n \/ text[i + 1] \in sep)}
      tokens == [k \in 1..Cardinality(starts) |->
                   SubSeq(text, KthSmallest(starts, k), KthSmallest(ends, k))]
      leading == IF n = 0 \/ text[1] \in sep THEN << <<>> >> ELSE <<>>
      trailing == IF n > 0 /\ text[n] \in sep THEN << <<>> >> ELSE <<>>
  IN leading \o tokens \o trailing

\* text.split(/\s+/)
splitWhitespace(text) == SplitOn(text, Whitespace)

NonBlank(s) == Len(trim(s)) > 0

\* text.split(/[.!?]+/).filter(s => s.trim().length > 0)
splitSentences(text) == SelectSeq(SplitOn(text, SentenceEnd), NonBlank)

\* pat occurs in text starting at position i
MatchAt(text, i, pat) ==
  /\ i >= 1
  /\ i + Len(pat) - 1 <= Len(text)
  /\ \A k \in 1..Len(pat) : text[i + k - 1] = pat[k]

\* String.prototype.includes
includes(text, pat) == \E i \in 1..(Len(text) + 1) : MatchAt(text, i, pat)

\* \b between positions i-1 and i (1 <= i <= Len(text)+1)
WordBoundaryAt(text, i) ==
  LET before == i > 1 /\ IsWordChar(text[i - 1])
      after == i <= Len(text) /\ IsWordChar(text[i])
  IN before # after

\* /\bpat\b/ matched at position i
WordMatchAt(text, i, pat) ==
  /\ MatchAt(text, i, pat)
  /\ WordBoundaryAt(text, i)
  /\ WordBoundaryAt(text, i + Len(pat))

\* /\bpat\b/i.test(text), pat in lower case
testWord(text, pat) ==
  LET low == toLowerCase(text)
  IN \E i \in 1..Len(text) : WordMatchAt(low, i, pat)

\* text.match(/\b(alt1|alt2|...)\b/gi): the number of matches, found from left
\* to right, each search resuming after the previous match (null counts 0).
countWordMatches(text, alts) ==
  LET low == toLowerCase(text)
      n == Len(low)
      hit(i) == {k \in 1..Len(alts) : WordMatchAt(low, i, alts[k])}
      found == {i \in 1..n : hit(i) # {}}
      RECURSIVE go(_)
      go(from) ==
        LET later == {i \in found : i >= from}
        IN IF later = {} THEN 0
           ELSE LET i == KthSmallest(later, 1)
                    k == KthSmallest(hit(i), 1)
                IN 1 + go(i + Len(alts[k]))
  IN go(1)

\* text.match(/\b[a-z]+\b/g) || []: the maximal runs of letters
matchLetterRuns(text) ==
  LET NonLetters == {text[i] : i \in 1..Len(text)} \ LowerSet
      NonEmpty(s) == Len(s) > 0
  IN SelectSeq(SplitOn(text, NonLetters), NonEmpty)

\* Array.prototype.some / includes on a sequence
SeqRange(s) == {s[i] : i \in 1..Len(s)}

\* Math.round of the fraction num/den (den > 0): the nearest integer, a
\* fraction ending in .5 rounded towards plus infinity
MathRound(num, den) == (2 * num + den) \div (2 * den)

\* Math.max(lo, Math.min(hi, x))
Clamp(lo, hi, x) == IF x < lo THEN lo ELSE IF x > hi THEN hi ELSE x

\* Sum of a sequence of integers (Array.prototype.reduce with +)
RECURSIVE SumSeq(_)
SumSeq(s) == IF s = <<>> THEN 0 ELSE Head(s) + SumSeq(Tail(s))

\* The elements of s at the positions in idx, in order
SubseqAt(s, idx) ==
  LET at == idx \cap (1..Len(s))
  IN [k \in 1..Cardinality(at) |-> s[KthSmallest(at, k)]]

Max(a, b) == IF a >= b THEN a ELSE b

Min(a, b) == IF a <= b THEN a ELSE b

\* A JavaScript number kept exact: num/den with den > 0
Frac(n, d) == [num |-> n, den |-> d]

\* Math.round of a fraction
RoundFrac(f) == MathRound(f.num, f.den)

\* Math.min(k, f) for an integer k and a fraction f
MinFrac(k, f) == IF f.num > k * f.den THEN Frac(k, 1) ELSE f

\* Math.max(k, f) for an integer k and a fraction f
MaxFrac(k, f) == IF f.num < k * f.den THEN Frac(k, 1) ELSE f

\* An optional argument that was not passed (never a text: its one element
\* is not a character)
Undefined == <<"undefined">>

\* JavaScript truthiness of an optional string: undefined and "" are falsy
Truthy(s) == s # Undefined /\ s # <<>>

\* A section argument that was not passed; `if (section)` treats undefined
\* and "" alike
NoSection == ""

\* ------------------------------------------------------------------------
\* The fixed word lists and pattern tables of scoring.ts
\* ------------------------------------------------------------------------

\* isAcademicWord: the fixed academic word list
academicWords ==
  << <<"a","n","a","l","y","z","e">>, <<"c","o","n","c","e","p","t">>,
     <<"t","h","e","o","r","y">>, <<"r","e","s","e","a","r","c","h">>,
     <<"s","t","u","d","y">>, <<"e","x","a","m","i","n","e">>,
     <<"i","n","v","e","s","t","i","g","a","t","e">>, <<"d","e","m","o","n","s","t","r","a","t","e">>,
     <<"i","l","l","u","s","t","r","a","t","e">>, <<"s","i","g","n","i","f","i","c","a","n","t">>,
     <<"s","u","b","s","t","a","n","t","i","a","l">>, <<"c","o","m","p","r","e","h","e","n","s","i","v","e">>,
     <<"m","e","t","h","o","d","o","l","o","g","y">>, <<"h","y","p","o","t","h","e","s","i","s">>,
     <<"c","o","n","c","l","u","s","i","o","n">>, <<"e","v","i","d","e","n","c","e">>,
     <<"c","r","i","t","e","r","i","a">>, <<"a","s","s","e","s","s","m","e","n","t">> >>

\* isProfessionalWord: the fixed professional word list
professionalWords ==
  << <<"e","x","p","e","r","i","e","n","c","e">>, <<"r","e","s","p","o","n","s","i","b","i","l","i","t","y">>,
     <<"m","a","n","a","g","e","m","e","n","t">>, <<"l","e","a","d","e","r","s","h","i","p">>,
     <<"c","o","l","l","a","b","o","r","a","t","i","o","n">>, <<"c","o","m","m","u","n","i","c","a","t","i","o","n">>,
     <<"d","e","v","e","l","o","p","m","e","n","t">>, <<"i","m","p","l","e","m","e","n","t","a","t","i","o","n">>,
     <<"s","t","r","a","t","e","g","y">>, <<"o","b","j","e","c","t","i","v","e">>,
     <<"a","c","h","i","e","v","e","m","e","n","t">>, <<"p","e","r","f","o","r","m","a","n","c","e">>,
     <<"e","f","f","i","c","i","e","n","c","y">>, <<"p","r","o","d","u","c","t","i","v","i","t","y">>,
     <<"i","n","n","o","v","a","t","i","o","n">>, <<"s","o","l","u","t","i","o","n">>,
     <<"c","h","a","l","l","e","n","g","e">>, <<"o","p","p","o","r","t","u","n","i","t","y">>,
     <<"p","r","o","f","e","s","s","i","o","n","a","l">>, <<"e","x","p","e","r","t","i","s","e">> >>

\* areSynonyms: the fixed table of synonym groups
synonymGroups ==
  << { <<"g","o","o","d">>,
       <<"g","r","e","a","t">>,
       <<"e","x","c","e","l","l","e","n","t">>,
       <<"w","o","n","d","e","r","f","u","l">>,
       <<"a","m","a","z","i","n","g">> },
     { <<"w","o","r","k">>,
       <<"j","o","b">>,
       <<"c","a","r","e","e","r">>,
       <<"p","r","o","f","e","s","s","i","o","n">>,
       <<"e","m","p","l","o","y","m","e","n","t">> },
     { <<"l","e","a","r","n">>,
       <<"s","t","u","d","y">>,
       <<"e","d","u","c","a","t","i","o","n">>,
       <<"k","n","o","w","l","e","d","g","e">>,
       <<"t","r","a","i","n","i","n","g">> },
     { <<"h","e","l","p">>,
       <<"a","s","s","i","s","t">>,
       <<"s","u","p","p","o","r","t">>,
       <<"a","i","d">> },
     { <<"i","m","p","o","r","t","a","n","t">>,
       <<"s","i","g","n","i","f","i","c","a","n","t">>,
       <<"c","r","u","c","i","a","l">>,
       <<"e","s","s","e","n","t","i","a","l">>,
       <<"v","i","t","a","l">> },
     { <<"c","o","m","p","a","n","y">>,
       <<"o","r","g","a","n","i","z","a","t","i","o","n">>,
       <<"b","u","s","i","n","e","s","s">>,
       <<"f","i","r","m">>,
       <<"c","o","r","p","o","r","a","t","i","o","n">> },
     { <<"s","k","i","l","l">>,
       <<"a","b","i","l","i","t","y">>,
       <<"c","a","p","a","b","i","l","i","t","y">>,
       <<"c","o","m","p","e","t","e","n","c","e">>,
       <<"e","x","p","e","r","t","i","s","e">> },
     { <<"g","o","a","l">>,
       <<"o","b","j","e","c","t","i","v","e">>,
       <<"t","a","r","g","e","t">>,
       <<"a","i","m">>,
       <<"p","u","r","p","o","s","e">> } >>

\* analyzeSentimentFree: positive words
positiveWords ==
  << <<"g","o","o","d">>, <<"g","r","e","a","t">>,
     <<"e","x","c","e","l","l","e","n","t">>, <<"a","m","a","z","i","n","g">>,
     <<"w","o","n","d","e","r","f","u","l">>, <<"f","a","n","t","a","s","t","i","c">>,
     <<"l","o","v","e">>, <<"l","i","k","e">>,
     <<"e","n","j","o","y">>, <<"h","a","p","p","y">>,
     <<"e","x","c","i","t","e","d">>, <<"p","a","s","s","i","o","n","a","t","e">>,
     <<"c","o","n","f","i","d","e","n","t">>, <<"s","u","c","c","e","s","s","f","u","l">>,
     <<"a","c","h","i","e","v","e">>, <<"a","c","c","o","m","p","l","i","s","h">>,
     <<"o","p","p","o","r","t","u","n","i","t","y">>, <<"g","r","o","w","t","h">>,
     <<"d","e","v","e","l","o","p","m","e","n","t">>, <<"i","m","p","r","o","v","e","m","e","n","t">>,
     <<"p","o","s","i","t","i","v","e">>, <<"o","p","t","i","m","i","s","t","i","c">> >>

\* analyzeSentimentFree: negative words
negativeWords ==
  << <<"b","a","d">>, <<"t","e","r","r","i","b","l","e">>,
     <<"a","w","f","u","l">>, <<"h","a","t","e">>,
     <<"d","i","s","l","i","k","e">>, <<"h","o","r","r","i","b","l","e">>,
     <<"w","o","r","s","t">>, <<"d","i","f","f","i","c","u","l","t">>,
     <<"p","r","o","b","l","e","m">>, <<"c","h","a","l","l","e","n","g","e">>,
     <<"s","t","r","u","g","g","l","e">>, <<"f","a","i","l">>,
     <<"f","a","i","l","u","r","e">>, <<"d","i","s","a","p","p","o","i","n","t","e","d">>,
     <<"f","r","u","s","t","r","a","t","e","d">>, <<"w","o","r","r","i","e","d">>,
     <<"c","o","n","c","e","r","n","e","d">>, <<"n","e","g","a","t","i","v","e">>,
     <<"p","e","s","s","i","m","i","s","t","i","c">>, <<"u","n","f","o","r","t","u","n","a","t","e">>,
     <<"r","e","g","r","e","t">> >>

\* analyzeGrammarFree: the catalogue of common error patterns, each /\bpattern\b/i
commonErrors ==
  << [pattern |-> <<"i"," ","a","m"," ","g","o","i","n","g"," ","t","o"," ","w","e","n","t">>,
      error |-> "Incorrect verb tense", penalty |-> 10],
     [pattern |-> <<"h","e"," ","d","o","n","'","t">>,
      error |-> "Subject-verb disagreement", penalty |-> 8],
     [pattern |-> <<"s","h","e"," ","d","o","n","'","t">>,
      error |-> "Subject-verb disagreement", penalty |-> 8],
     [pattern |-> <<"i","t"," ","d","o","n","'","t">>,
      error |-> "Subject-verb disagreement", penalty |-> 8],
     [pattern |-> <<"m","u","c","h"," ","p","e","o","p","l","e">>,
      error |-> "Use \"many people\" not \"much people\"", penalty |-> 6],
     [pattern |-> <<"l","e","s","s"," ","p","e","o","p","l","e">>,
      error |-> "Use \"fewer people\" not \"less people\"", penalty |-> 6],
     [pattern |-> <<"m","o","r","e"," ","b","e","t","t","e","r">>,
      error |-> "Use \"better\" not \"more better\"", penalty |-> 6],
     [pattern |-> <<"m","o","s","t"," ","b","e","s","t">>,
      error |-> "Use \"best\" not \"most best\"", penalty |-> 6],
     [pattern |-> <<"c","a","n"," ","a","b","l","e"," ","t","o">>,
      error |-> "Use either \"can\" or \"able to\"", penalty |-> 5],
     [pattern |-> <<"w","o","u","l","d"," ","o","f">>,
      error |-> "Use \"would have\" not \"would of\"", penalty |-> 8],
     [pattern |-> <<"c","o","u","l","d"," ","o","f">>,
      error |-> "Use \"could have\" not \"could of\"", penalty |-> 8],
     [pattern |-> <<"s","h","o","u","l","d"," ","o","f">>,
      error |-> "Use \"should have\" not \"should of\"", penalty |-> 8] >>

\* analyzeGrammarFree: conjunctions, looked up with includes
grammarConjunctions ==
  << <<"a","n","d">>, <<"b","u","t">>,
     <<"b","e","c","a","u","s","e">>, <<"a","l","t","h","o","u","g","h">>,
     <<"h","o","w","e","v","e","r">>, <<"t","h","e","r","e","f","o","r","e">>,
     <<"m","o","r","e","o","v","e","r">>, <<"f","u","r","t","h","e","r","m","o","r","e">> >>

\* analyzeContentFree: transition words, looked up with includes
transitionWords ==
  << <<"f","i","r","s","t">>, <<"s","e","c","o","n","d">>,
     <<"t","h","e","n">>, <<"n","e","x","t">>,
     <<"f","i","n","a","l","l","y">>, <<"h","o","w","e","v","e","r">>,
     <<"t","h","e","r","e","f","o","r","e">>, <<"b","e","c","a","u","s","e">>,
     <<"a","l","t","h","o","u","g","h">> >>

\* analyzeContentFree: /for example|such as|like|including/
exampleMarkers ==
  << <<"f","o","r"," ","e","x","a","m","p","l","e">>, <<"s","u","c","h"," ","a","s">>,
     <<"l","i","k","e">>, <<"i","n","c","l","u","d","i","n","g">> >>

\* estimateFluencyFromText: /\b(um|uh|like|you know|basically|actually|sort of|kind of)\b/gi
fillerWords ==
  << <<"u","m">>, <<"u","h">>,
     <<"l","i","k","e">>, <<"y","o","u"," ","k","n","o","w">>,
     <<"b","a","s","i","c","a","l","l","y">>, <<"a","c","t","u","a","l","l","y">>,
     <<"s","o","r","t"," ","o","f">>, <<"k","i","n","d"," ","o","f">> >>

\* estimateFluencyFromText: the conjunction alternation, /\b(...)\b/gi
fluencyConjunctions ==
  << <<"a","n","d">>, <<"b","u","t">>,
     <<"b","e","c","a","u","s","e">>, <<"a","l","t","h","o","u","g","h">>,
     <<"h","o","w","e","v","e","r">>, <<"t","h","e","r","e","f","o","r","e">>,
     <<"m","o","r","e","o","v","e","r">>, <<"f","u","r","t","h","e","r","m","o","r","e">>,
     <<"w","h","i","l","e">>, <<"s","i","n","c","e">> >>

\* analyzeCompletenessForSection, case B: /situation|problem|challenge|experience/
situationWords ==
  << <<"s","i","t","u","a","t","i","o","n">>, <<"p","r","o","b","l","e","m">>,
     <<"c","h","a","l","l","e","n","g","e">>, <<"e","x","p","e","r","i","e","n","c","e">> >>

\* analyzeCompletenessForSection, case B: /solution|action|did|decided|resolved/
actionWords ==
  << <<"s","o","l","u","t","i","o","n">>, <<"a","c","t","i","o","n">>,
     <<"d","i","d">>, <<"d","e","c","i","d","e","d">>,
     <<"r","e","s","o","l","v","e","d">> >>

\* ------------------------------------------------------------------------
\* Grammar Heuristic Analyzer
\* ------------------------------------------------------------------------

\* /^[A-Z]/.test(text.trim())
startsWithCapital(text) ==
  LET t == trim(text) IN Len(t) > 0 /\ t[1] \in UpperSet

\* /[.!?]$/.test(text.trim())
endsWithPunctuation(text) ==
  LET t == trim(text) IN Len(t) > 0 /\ t[Len(t)] \in SentenceEnd

\* The positions of the catalogue patterns that match the text
matchedErrors(text) ==
  {k \in 1..Len(commonErrors) : testWord(text, commonErrors[k].pattern)}

\* conjunctions.some(conj => text.toLowerCase().includes(conj))
hasGrammarConjunction(text) ==
  \E k \in 1..Len(grammarConjunctions) :
    includes(toLowerCase(text), grammarConjunctions[k])

\* The score before the clamp, with the greatest penalty among the matching
\* patterns in place of their sum
grammarRawScoreWorstPattern(text) ==
  LET sentences == splitSentences(text)
      NonEmpty(w) == Len(w) > 0
      words == SelectSeq(splitWhitespace(toLowerCase(text)), NonEmpty)
      perSentence == Max(Len(sentences), 1)
      matched == matchedErrors(text)
      worst == IF matched = {} THEN 0
               ELSE commonErrors[CHOOSE k \in matched :
                      \A j \in matched :
                        commonErrors[j].penalty <= commonErrors[k].penalty]
                      .penalty
  IN 85
     - (IF startsWithCapital(text) THEN 0 ELSE 5)
     - (IF endsWithPunctuation(text) THEN 0 ELSE 5)
     - worst
     - (IF Len(words) < 5 * perSentence THEN 5
        ELSE IF Len(words) > 25 * perSentence THEN 3 ELSE 0)
     + (IF hasGrammarConjunction(text) THEN 5 ELSE 0)

\* The score of analyzeGrammarFree before the final clamp
grammarRawScore(text) ==
  LET sentences == splitSentences(text)
      NonEmpty(w) == Len(w) > 0
      words == SelectSeq(splitWhitespace(toLowerCase(text)), NonEmpty)
      perSentence == Max(Len(sentences), 1)
      matched == matchedErrors(text)
  IN 85
     - (IF startsWithCapital(text) THEN 0 ELSE 5)
     - (IF endsWithPunctuation(text) THEN 0 ELSE 5)
     - SumSeq([k \in 1..Len(commonErrors) |->
                 IF k \in matched THEN commonErrors[k].penalty ELSE 0])
     - (IF Len(words) < 5 * perSentence THEN 5
        ELSE IF Len(words) > 25 * perSentence THEN 3 ELSE 0)
     + (IF hasGrammarConjunction(text) THEN 5 ELSE 0)

analyzeGrammarFree(text) ==
  LET sentences == splitSentences(text)
      NonEmpty(w) == Len(w) > 0
      words == SelectSeq(splitWhitespace(toLowerCase(text)), NonEmpty)
      perSentence == Max(Len(sentences), 1)
      matched == matchedErrors(text)
  IN [score |-> Max(0, Min(100, grammarRawScore(text))),
      errors |->
        (IF startsWithCapital(text) THEN <<>>
         ELSE <<"Missing capital letter at start">>)
        \o (IF endsWithPunctuation(text) THEN <<>>
            ELSE <<"Missing ending punctuation">>)
        \o SubseqAt([k \in 1..Len(commonErrors) |-> commonErrors[k].error],
                    matched),
      suggestions |->
        (IF startsWithCapital(text) THEN <<>>
         ELSE <<"Start sentences with capital letters">>)
        \o (IF endsWithPunctuation(text) THEN <<>>
            ELSE <<"End sentences with proper punctuation">>)
        \o (IF Len(words) < 5 * perSentence
              THEN <<"Try using longer, more complex sentences">>
            ELSE IF Len(words) > 25 * perSentence
              THEN <<"Break down very long sentences for clarity">>
            ELSE <<>>)]

\* ------------------------------------------------------------------------
\* Vocabulary Heuristic Analyzer
\* ------------------------------------------------------------------------

isAcademicWord(word) == word \in SeqRange(academicWords)

isProfessionalWord(word) == word \in SeqRange(professionalWords)

\* The word types longer than 3 characters that occur more than twice, in
\* the order of their first occurrence (the key order of the count object)
\* The keys that wordCount, an object literal, has before anything is stored
\* in it and that a lower-cased run of letters can name: Object.prototype's
\* "constructor".  wordCount[word] || 0 is then a function, adding 1 to it
\* makes a string, and a string that is not a numeral is not > 2.
inheritedWordCountKeys == {<<"c","o","n","s","t","r","u","c","t","o","r">>}

findWordRepetitions(words) ==
  LET count(w) == Cardinality({i \in 1..Len(words) : words[i] = w})
      first == {i \in 1..Len(words) :
                  /\ \A j \in 1..(i - 1) : words[j] # words[i]
                  /\ Len(words[i]) > 3
                  /\ words[i] \notin inheritedWordCountKeys
                  /\ count(words[i]) > 2}
  IN SubseqAt(words, first)

\* The score of analyzeVocabularyFree before the final clamp
vocabularyRawScore(text) ==
  LET words == matchLetterRuns(toLowerCase(text))
      totalWords == Len(words)
      uniqueWordCount == Cardinality(SeqRange(words))
      den == Max(totalWords, 1)
      lengthSum == SumSeq([i \in 1..totalWords |-> Len(words[i])])
      IsAdvanced(w) ==
        Len(w) >= 7 \/ isAcademicWord(w) \/ isProfessionalWord(w)
      advancedWords == SelectSeq(words, IsAdvanced)
      adv == Len(advancedWords)
  IN 60
     \* lexicalDiversity = uniqueWordCount / den against 0.8, 0.6, 0.4, 0.2
     + (IF 10 * uniqueWordCount > 8 * den THEN 25
        ELSE IF 10 * uniqueWordCount > 6 * den THEN 20
        ELSE IF 10 * uniqueWordCount > 4 * den THEN 15
        ELSE IF 10 * uniqueWordCount > 2 * den THEN 10 ELSE 0)
     \* avgWordLength = lengthSum / den against 6, 5, 4
     + (IF lengthSum > 6 * den THEN 15
        ELSE IF lengthSum > 5 * den THEN 10
        ELSE IF lengthSum > 4 * den THEN 5 ELSE 0)
     \* advancedRatio = adv / den against 0.3, 0.2, 0.1
     + (IF 10 * adv > 3 * den THEN 15
        ELSE IF 10 * adv > 2 * den THEN 10
        ELSE IF 10 * adv > den THEN 5 ELSE 0)
     - 3 * Len(findWordRepetitions(words))

\* analyzeVocabularyFree with the final Math.max(0, Math.min(100, score))
\* left out
analyzeVocabularyFreeUnclamped(text) ==
  [score |-> vocabularyRawScore(text),
   metrics |-> [totalWords |-> Len(matchLetterRuns(toLowerCase(text)))],
   suggestions |-> <<>>]

analyzeVocabularyFree(text) ==
  LET words == matchLetterRuns(toLowerCase(text))
      totalWords == Len(words)
      uniqueWordCount == Cardinality(SeqRange(words))
      den == Max(totalWords, 1)
      lengthSum == SumSeq([i \in 1..totalWords |-> Len(words[i])])
      IsAdvanced(w) ==
        Len(w) >= 7 \/ isAcademicWord(w) \/ isProfessionalWord(w)
      adv == Len(SelectSeq(words, IsAdvanced))
  IN [score |-> Max(0, Min(100, vocabularyRawScore(text))),
      metrics |-> [totalWords |-> totalWords,
                   uniqueWordCount |-> uniqueWordCount,
                   lexicalDiversity |-> Frac(uniqueWordCount, den),
                   avgWordLength |-> Frac(lengthSum, den),
                   advancedWords |-> adv],
      suggestions |->
        (IF Len(findWordRepetitions(words)) > 0
           THEN <<"Avoid repeating the same words too often">> ELSE <<>>)
        \o (IF 2 * uniqueWordCount < den
              THEN <<"Try using more varied vocabulary">> ELSE <<>>)
        \o (IF 2 * lengthSum < 9 * den
              THEN <<"Include some longer, more descriptive words">>
            ELSE <<>>)
        \o (IF adv = 0
              THEN <<"Consider using more sophisticated vocabulary">>
            ELSE <<>>)]

\* ------------------------------------------------------------------------
\* Content / Comprehension Analyzer
\* ------------------------------------------------------------------------

areSynonyms(word1, word2) ==
  \E g \in 1..Len(synonymGroups) :
    word1 \in synonymGroups[g] /\ word2 \in synonymGroups[g]

\* countMatchingConcepts matching an expected word only by a user word equal
\* to it or a synonym of it
countMatchingConceptsExact(userWords, expectedWords) ==
  Cardinality({e \in 1..Len(expectedWords) :
    \E u \in 1..Len(userWords) :
      \/ userWords[u] = expectedWords[e]
      \/ areSynonyms(userWords[u], expectedWords[e])})

\* The number of expected words for which some user word contains it, is
\* contained in it, or is a synonym of it
countMatchingConcepts(userWords, expectedWords) ==
  Cardinality({e \in 1..Len(expectedWords) :
    \E u \in 1..Len(userWords) :
      \/ includes(userWords[u], expectedWords[e])
      \/ includes(expectedWords[e], userWords[u])
      \/ areSynonyms(userWords[u], expectedWords[e])})

\* text contains one of the alternatives of an unanchored alternation
includesAny(text, alts) ==
  \E k \in 1..Len(alts) : includes(text, alts[k])

analyzeCompletenessForSection(text, section, question) ==
  LET words == splitWhitespace(toLowerCase(text))
      n == Len(words)
      sentences == splitSentences(text)
      bonus ==
        CASE section = "A" ->
               IF n >= 8 THEN 30 ELSE IF n >= 5 THEN 20
               ELSE IF n >= 3 THEN 10 ELSE 0
          [] section = "B" ->
               (IF n >= 25 THEN 30 ELSE IF n >= 15 THEN 20
                ELSE IF n >= 10 THEN 10 ELSE 0)
               + (IF includesAny(text, situationWords) THEN 5 ELSE 0)
               + (IF includesAny(text, actionWords) THEN 5 ELSE 0)
          [] section = "G" ->
               (IF n >= 50 THEN 30 ELSE IF n >= 35 THEN 20
                ELSE IF n >= 20 THEN 10 ELSE 0)
               + (IF Len(sentences) >= 4 THEN 10 ELSE 0)
          [] OTHER ->
               IF n >= 15 THEN 25 ELSE IF n >= 10 THEN 15
               ELSE IF n >= 5 THEN 10 ELSE 0
  IN Min(100, 60 + bonus)

\* extractKeyPointsFree without slice(0, 3)
extractKeyPointsFreeUncut(sentences) ==
  LET Long(s) == Len(trim(s)) > 15
      kept == SelectSeq(sentences, Long)
  IN [i \in 1..Len(kept) |-> trim(kept[i])]

\* Up to 3 sentences longer than 15 characters once trimmed, trimmed
extractKeyPointsFree(sentences) ==
  LET Long(s) == Len(trim(s)) > 15
      kept == SelectSeq(sentences, Long)
      trimmed == [i \in 1..Len(kept) |-> trim(kept[i])]
  IN SubSeq(trimmed, 1, Min(3, Len(trimmed)))

analyzeContentFree(text, expectedAnswer, question, section) ==
  LET words == splitWhitespace(toLowerCase(text))
      sentences == splitSentences(text)
      expectedWords == splitWhitespace(toLowerCase(expectedAnswer))
      matchingConcepts == countMatchingConcepts(words, expectedWords)
      \* 50 + (matchingConcepts / expectedWords.length) * 50
      relevance ==
        IF Truthy(expectedAnswer)
          THEN MinFrac(100, Frac(50 * Len(expectedWords) + 50 * matchingConcepts,
                                 Len(expectedWords)))
          ELSE Frac(70, 1)
      completeness ==
        IF section # NoSection
          THEN analyzeCompletenessForSection(text, section, question)
          ELSE 60
               + (IF Len(words) > 20 THEN 25 ELSE IF Len(words) > 15 THEN 20
                  ELSE IF Len(words) > 10 THEN 15
                  ELSE IF Len(words) > 5 THEN 10 ELSE 0)
               + (IF Len(sentences) > 2 THEN 15 ELSE 0)
      coherence ==
        70
        + (IF includesAny(toLowerCase(text), transitionWords) THEN 15 ELSE 0)
        + (IF includesAny(toLowerCase(text), exampleMarkers) THEN 10 ELSE 0)
  IN [relevance |-> MinFrac(100, relevance),
      completeness |-> Min(100, completeness),
      coherence |-> Min(100, coherence),
      keyPoints |-> extractKeyPointsFree(sentences)]

\* ------------------------------------------------------------------------
\* Sentiment (computed by intelligentTextAnalysis, read by no score)
\* ------------------------------------------------------------------------

analyzeSentimentFree(text) ==
  LET words == splitWhitespace(toLowerCase(text))
      n == Len(words)
      positiveCount ==
        Cardinality({i \in 1..n : words[i] \in SeqRange(positiveWords)})
      negativeCount ==
        Cardinality({i \in 1..n : words[i] \in SeqRange(negativeWords)})
      \* Math.min(0.9, 0.5 + diff / words.length * 2)
      conf(diff) == IF 10 * (n + 4 * diff) > 18 * n
                      THEN Frac(9, 10) ELSE Frac(n + 4 * diff, 2 * n)
  IN IF positiveCount > negativeCount
       THEN [sentiment |-> "positive",
             confidence |-> conf(positiveCount - negativeCount),
             tone |-> IF positiveCount > negativeCount * 2
                        THEN "enthusiastic" ELSE "positive"]
     ELSE IF negativeCount > positiveCount
       THEN [sentiment |-> "negative",
             confidence |-> conf(negativeCount - positiveCount),
             tone |-> IF negativeCount > positiveCount * 2
                        THEN "pessimistic" ELSE "cautious"]
     ELSE [sentiment |-> "neutral", confidence |-> Frac(1, 2),
           tone |-> "neutral"]

\* ------------------------------------------------------------------------
\* Text-only proxies for pronunciation and fluency
\* ------------------------------------------------------------------------

\* estimatePronunciationFromText measuring the words without the punctuation
\* attached to them
estimatePronunciationFromTextLetters(text) ==
  LET words == splitWhitespace(text)
      n == Len(words)
      letters == matchLetterRuns(toLowerCase(text))
      complexWords == {i \in 1..Len(letters) : Len(letters[i]) > 6}
      professional == {i \in 1..Len(letters) :
                         \/ isProfessionalWord(letters[i])
                         \/ isAcademicWord(letters[i])}
  IN Min(100,
         75
         + (IF n > 15 THEN 10 ELSE IF n > 10 THEN 5 ELSE 0)
         + (IF complexWords # {} THEN 5 ELSE 0)
         + (IF professional # {} THEN 5 ELSE 0))

estimatePronunciationFromText(text) ==
  LET words == splitWhitespace(text)
      n == Len(words)
      complexWords == {i \in 1..n : Len(words[i]) > 6}
      professional == {i \in 1..n :
                         \/ isProfessionalWord(toLowerCase(words[i]))
                         \/ isAcademicWord(toLowerCase(words[i]))}
  IN Min(100,
         75
         + (IF n > 15 THEN 10 ELSE IF n > 10 THEN 5 ELSE 0)
         + (IF complexWords # {} THEN 5 ELSE 0)
         + (IF professional # {} THEN 5 ELSE 0))

\* The score of estimateFluencyFromText before the final clamp
fluencyRawScore(text) ==
  LET words == splitWhitespace(text)
      n == Len(words)
      perSentence == Max(Len(splitSentences(text)), 1)
      fillerMatches == countWordMatches(text, fillerWords)
      conjunctionMatches == countWordMatches(text, fluencyConjunctions)
  IN 70
     + (IF n > 20 THEN 15 ELSE IF n > 15 THEN 10 ELSE IF n > 10 THEN 5 ELSE 0)
     - fillerMatches * 3
     \* avgWordsPerSentence = n / perSentence against 12 and 8
     + (IF n > 12 * perSentence THEN 10
        ELSE IF n > 8 * perSentence THEN 5 ELSE 0)
     + Min(10, conjunctionMatches * 2)

\* estimateFluencyFromText without the floor of 40
estimateFluencyFromTextNoFloor(text) == Min(100, fluencyRawScore(text))

estimateFluencyFromText(text) == Min(100, Max(40, fluencyRawScore(text)))

\* ------------------------------------------------------------------------
\* Audio path: fluency from the metrics of a decoded recording
\* ------------------------------------------------------------------------

\* calculateFluencyFromRate without the deduction for a pause ratio above 0.4
calculateFluencyFromRateNoDeduction(speakingRate, pauseRatio) ==
  LET r == speakingRate
      p == pauseRatio
      between(lo, hi) == r.num >= lo * r.den /\ r.num <= hi * r.den
      base == IF between(140, 180) THEN 90
              ELSE IF between(120, 200) THEN 80
              ELSE IF between(100, 220) THEN 70 ELSE 60
      adjusted == IF 10 * p.num > p.den /\ 10 * p.num < 3 * p.den
                    THEN base + 5 ELSE base
  IN Min(100, adjusted)

\* speakingRate and pauseRatio are fractions
calculateFluencyFromRate(speakingRate, pauseRatio) ==
  LET r == speakingRate
      p == pauseRatio
      between(lo, hi) == r.num >= lo * r.den /\ r.num <= hi * r.den
      base == IF between(140, 180) THEN 90
              ELSE IF between(120, 200) THEN 80
              ELSE IF between(100, 220) THEN 70 ELSE 60
      \* pauseRatio > 0.1 && pauseRatio < 0.3, else pauseRatio > 0.4
      adjusted == IF 10 * p.num > p.den /\ 10 * p.num < 3 * p.den
                    THEN base + 5
                  ELSE IF 10 * p.num > 4 * p.den THEN base - 10 ELSE base
  IN Min(100, adjusted)

\* ------------------------------------------------------------------------
\* Inputs of the model
\* ------------------------------------------------------------------------

\* The transcripts of the model, by name
Transcript ==
  "empty" :>
       <<>>
  @@ "blank" :>
       <<" ">>
  @@ "yes" :>
       <<"Y","e","s">>
  @@ "coffee" :>
       <<"H","e"," ","d","o","n","'","t"," ","l","i","k","e"," ","c","o",
         "f","f","e","e",".">>
  @@ "weather" :>
       <<"T","h","e"," ","w","e","a","t","h","e","r"," ","i","s"," ","n",
         "i","c","e"," ","t","o","d","a","y",".">>
  @@ "developer" :>
       <<"I"," ","a","m"," ","a"," ","s","o","f","t","w","a","r","e"," ",
         "d","e","v","e","l","o","p","e","r"," ","w","i","t","h"," ","f",
         "i","v","e"," ","y","e","a","r","s"," ","e","x","p","e","r","i",
         "e","n","c","e","."," ","I"," ","e","n","j","o","y"," ","w","o",
         "r","k","i","n","g"," ","o","n"," ","c","h","a","l","l","e","n",
         "g","i","n","g"," ","p","r","o","j","e","c","t","s"," ","a","n",
         "d"," ","l","e","a","r","n","i","n","g"," ","n","e","w"," ","t",
         "e","c","h","n","o","l","o","g","i","e","s",".">>
  @@ "learned" :>
       <<"C","o","m","p","r","e","h","e","n","s","i","v","e"," ","m","e",
         "t","h","o","d","o","l","o","g","y"," ","d","e","m","o","n","s",
         "t","r","a","t","e","s"," ","s","i","g","n","i","f","i","c","a",
         "n","t"," ","p","r","o","f","e","s","s","i","o","n","a","l"," ",
         "e","x","p","e","r","t","i","s","e",".">>
  @@ "errors" :>
       <<"i"," ","a","m"," ","g","o","i","n","g"," ","t","o"," ","w","e",
         "n","t"," ","h","e"," ","d","o","n","'","t"," ","s","h","e"," ",
         "d","o","n","'","t"," ","i","t"," ","d","o","n","'","t"," ","m",
         "u","c","h"," ","p","e","o","p","l","e"," ","l","e","s","s"," ",
         "p","e","o","p","l","e"," ","m","o","r","e"," ","b","e","t","t",
         "e","r"," ","m","o","s","t"," ","b","e","s","t"," ","c","a","n",
         " ","a","b","l","e"," ","t","o"," ","w","o","u","l","d"," ","o",
         "f"," ","c","o","u","l","d"," ","o","f"," ","s","h","o","u","l",
         "d"," ","o","f">>
  @@ "fillers" :>
       <<"u","m"," ","u","m"," ","u","m"," ","u","m"," ","u","m"," ","u",
         "m"," ","u","m"," ","u","m"," ","u","m"," ","u","m"," ","u","m",
         " ","u","m"," ","u","m"," ","u","m"," ","u","m"," ","u","m"," ",
         "u","m"," ","u","m"," ","u","m"," ","u","m">>
  @@ "named" :>
       <<"M","y"," ","n","a","m","e"," ","i","s"," ","S","a","m",".">>
  @@ "mywork" :>
       <<"M","y"," ","p","r","o","f","e","s","s","i","o","n","a","l"," ",
         "w","o","r","k">>
  @@ "iama" :>
       <<"I"," ","a","m"," ","a">>
  @@ "rambling" :>
       <<"w","e"," ","w","e","n","t"," ","t","h","e","r","e"," ","a","n",
         "d"," ","t","h","e","n"," ","w","e"," ","w","e","n","t"," ","h",
         "o","m","e"," ","b","e","c","a","u","s","e"," ","t","h","e","y",
         " ","w","e","n","t"," ","a","w","a","y"," ","a","n","d"," ","t",
         "h","e","n"," ","t","h","e","y"," ","s","a","i","d"," ","t","h",
         "a","t"," ","t","h","e","y"," ","w","e","n","t"," ","b","a","c",
         "k"," ","a","g","a","i","n"," ","b","u","t"," ","n","o","b","o",
         "d","y"," ","r","e","a","l","l","y"," ","k","n","e","w"," ","w",
         "h","e","r","e"," ","t","h","e","y"," ","h","a","d"," ","g","o",
         "n","e">>
  @@ "listing" :>
       <<"t","e","a"," ","a","n","d"," ","m","i","l","k"," ","a","n","d",
         " ","r","i","c","e"," ","a","n","d"," ","c","o","r","n"," ","a",
         "n","d"," ","b","e","a","n","s"," ","a","n","d"," ","n","u","t",
         "s"," ","a","n","d"," ","f","i","g","s">>
  @@ "constructors" :>
       <<"c","o","n","s","t","r","u","c","t","o","r"," ","c","o","n","s",
         "t","r","u","c","t","o","r"," ","c","o","n","s","t","r","u","c",
         "t","o","r">>
  @@ "steps" :>
       <<"F","i","r","s","t"," ","w","e"," ","p","l","a","n"," ","t","h",
         "e"," ","w","o","r","k","."," ","T","h","e","n"," ","w","e"," ",
         "b","u","i","l","d"," ","t","h","e"," ","p","a","r","t","s",".",
         " ","N","e","x","t"," ","w","e"," ","t","e","s","t"," ","t","h",
         "e"," ","w","h","o","l","e","."," ","F","i","n","a","l","l","y",
         " ","w","e"," ","s","h","i","p"," ","t","h","i","n","g","s"," ",
         "l","i","k","e"," ","t","h","e","s","e",".">>

\* The expected-answer hints of the model, by name
Hint ==
  "background" :>
       <<"p","r","o","f","e","s","s","i","o","n","a","l"," ","b","a","c",
         "k","g","r","o","u","n","d",","," ","s","k","i","l","l","s",",",
         " ","g","o","a","l","s">>
  @@ "name" :>
       <<"n","a","m","e">>

\* The question texts of the model, by name
Question ==
  "yourself" :>
       <<"T","e","l","l"," ","m","e"," ","a","b","o","u","t"," ","y","o",
         "u","r","s","e","l","f"," ","i","n"," ","o","n","e"," ","s","e",
         "n","t","e","n","c","e",".">>

TranscriptIds == DOMAIN Transcript

\* "none": the caller passed no expected answer
HintIds == DOMAIN Hint \cup {"none"}

\* "none": the caller passed no question text
QuestionIds == DOMAIN Question \cup {"none"}

expectedAnswerOf(h) == IF h = "none" THEN Undefined ELSE Hint[h]

questionOf(q) == IF q = "none" THEN Undefined ELSE Question[q]

\* The recordings of the model.  A recording either decodes, and then
\* extractAudioMetrics yields its metrics, or makes blobToAudioBuffer /
\* extractAudioMetrics throw ("corrupt"), or its decoding never settles
\* ("stalled").  "none": the caller passed no audioBlob.
DecodableBlobs == {"clear", "hurried", "halting"}

AudioBlobs == DecodableBlobs \cup {"corrupt", "stalled"}

\* What extractAudioMetrics returns for a decoded recording.  The signal
\* processing is kept to its results: speakingRate > 0 (estimateWordCount is
\* at least 1), pauseRatio in [0,1], clarity in [50,100] (estimateClarity).
extractAudioMetrics(blob) ==
  CASE blob = "clear" ->
         [speakingRate |-> Frac(160, 1), pauseRatio |-> Frac(1, 5),
          clarity |-> Frac(100, 1)]
    [] blob = "hurried" ->
         [speakingRate |-> Frac(451, 2), pauseRatio |-> Frac(1, 20),
          clarity |-> Frac(151, 2)]
    [] blob = "halting" ->
         [speakingRate |-> Frac(95, 1), pauseRatio |-> Frac(1, 2),
          clarity |-> Frac(60, 1)]

\* The analyzers an assessment can find throwing.  The analyzers are pure, so
\* one that throws on an input throws on it every time it is called.
Analyzers == {"grammar", "vocabulary", "content", "sentiment"}

Faults == Analyzers \cup {"none"}

Sections == {"A", "B", "G", "C", NoSection}

\* JavaScript null
Null == [null |-> TRUE]

\* ------------------------------------------------------------------------
\* The analyzers on the texts of the model.  The analyzers are pure
\* functions of their arguments; each table below holds the value of one of
\* them for every argument the model can pass, so that it is computed once.
\* ------------------------------------------------------------------------

Texts == {Transcript[t] : t \in TranscriptIds}

ExpectedAnswers == {expectedAnswerOf(h) : h \in HintIds}

QuestionTexts == {questionOf(q) : q \in QuestionIds}

grammarOf == [text \in Texts |-> analyzeGrammarFree(text)]

vocabularyOf == [text \in Texts |-> analyzeVocabularyFree(text)]

contentOf ==
  [text \in Texts |->
     [expectedAnswer \in ExpectedAnswers |->
        [question \in QuestionTexts |->
           [section \in Sections |->
              analyzeContentFree(text, expectedAnswer, question, section)]]]]

sentimentOf == [text \in Texts |-> analyzeSentimentFree(text)]

pronunciationFromTextOf ==
  [text \in Texts |-> estimatePronunciationFromText(text)]

fluencyFromTextOf == [text \in Texts |-> estimateFluencyFromText(text)]

\* ------------------------------------------------------------------------
\* assessResponse and the Score Combiner
\* ------------------------------------------------------------------------

\* The promise an async function returns
Fulfilled(v) == [status |-> "fulfilled", value |-> v]

Rejected == [status |-> "rejected", value |-> Null]

Pending == [status |-> "pending", value |-> Null]

\* async intelligentTextAnalysis: the four analyzers run in turn with no
\* await between them, so the promise is settled when the call returns;
\* an analyzer that throws rejects it.
intelligentTextAnalysis(text, expectedAnswer, question, section, fault) ==
  IF fault \in Analyzers THEN Rejected
  ELSE Fulfilled([grammar |-> grammarOf[text],
                  vocabulary |-> vocabularyOf[text],
                  content |-> contentOf[text][expectedAnswer][question][section],
                  sentiment |-> sentimentOf[text]])

enhancedGrammarScore(text) == grammarOf[text].score

enhancedVocabularyScore(text) == vocabularyOf[text].score

enhancedComprehensionScore(text, expectedAnswer) ==
  contentOf[text][expectedAnswer][Undefined][NoSection].relevance

\* A field of the object assessResponse resolves with: a number, or a
\* promise object (one that fulfils with val, or one that rejects)
Number(f) == [kind |-> "number", val |-> f]

PromiseOf(f) == [kind |-> "promise", val |-> f]

RejectedPromise == [kind |-> "rejectedPromise", val |-> Frac(0, 1)]

\* combineIntelligentResults throws when a fallback it calls throws
combineThrows(textResult, fault) ==
  /\ textResult = Null
  /\ fault \in {"grammar", "vocabulary", "content"}

\* combineIntelligentResults keeping the initial `let pronunciation = 75`
\* when there are no audio metrics
combineIntelligentResultsInitialPronunciation(textResult, audioResult, userResponse, expectedAnswer) ==
  LET grammar ==
        IF textResult # Null /\ textResult.grammar.score # 0
          THEN textResult.grammar.score
          ELSE enhancedGrammarScore(userResponse)
      vocabulary ==
        IF textResult # Null /\ textResult.vocabulary.score # 0
          THEN textResult.vocabulary.score
          ELSE enhancedVocabularyScore(userResponse)
      comprehension ==
        IF textResult # Null /\ textResult.content.relevance.num # 0
          THEN textResult.content.relevance
          ELSE enhancedComprehensionScore(userResponse, expectedAnswer)
      pronunciation ==
        IF audioResult # Null /\ audioResult.clarity.num # 0
          THEN audioResult.clarity
          ELSE Frac(75, 1)
      fluency ==
        IF audioResult # Null /\ audioResult.speakingRate.num # 0
          THEN calculateFluencyFromRate(audioResult.speakingRate,
                                        audioResult.pauseRatio)
          ELSE fluencyFromTextOf[userResponse]
  IN [fluency |-> Number(Frac(MathRound(fluency, 1), 1)),
      pronunciation |-> Number(Frac(RoundFrac(pronunciation), 1)),
      grammar |-> Number(Frac(MathRound(grammar, 1), 1)),
      vocabulary |-> Number(Frac(MathRound(vocabulary, 1), 1)),
      comprehension |-> Number(Frac(RoundFrac(comprehension), 1))]

\* combineIntelligentResults with the completeness of the content analysis
\* folded into the comprehension
combineIntelligentResultsWithCompleteness(textResult, audioResult, userResponse, expectedAnswer) ==
  LET grammar ==
        IF textResult # Null /\ textResult.grammar.score # 0
          THEN textResult.grammar.score
          ELSE enhancedGrammarScore(userResponse)
      vocabulary ==
        IF textResult # Null /\ textResult.vocabulary.score # 0
          THEN textResult.vocabulary.score
          ELSE enhancedVocabularyScore(userResponse)
      comprehension ==
        IF textResult # Null /\ textResult.content.relevance.num # 0
          THEN Frac(textResult.content.relevance.num
                      + textResult.content.completeness
                          * textResult.content.relevance.den,
                    2 * textResult.content.relevance.den)
          ELSE enhancedComprehensionScore(userResponse, expectedAnswer)
      pronunciation ==
        IF audioResult # Null /\ audioResult.clarity.num # 0
          THEN audioResult.clarity
          ELSE Frac(pronunciationFromTextOf[userResponse], 1)
      fluency ==
        IF audioResult # Null /\ audioResult.speakingRate.num # 0
          THEN calculateFluencyFromRate(audioResult.speakingRate,
                                        audioResult.pauseRatio)
          ELSE fluencyFromTextOf[userResponse]
  IN [fluency |-> Number(Frac(MathRound(fluency, 1), 1)),
      pronunciation |-> Number(Frac(RoundFrac(pronunciation), 1)),
      grammar |-> Number(Frac(MathRound(grammar, 1), 1)),
      vocabulary |-> Number(Frac(MathRound(vocabulary, 1), 1)),
      comprehension |-> Number(Frac(RoundFrac(comprehension), 1))]

combineIntelligentResults(textResult, audioResult, userResponse, expectedAnswer) ==
  LET grammar ==
        IF textResult # Null /\ textResult.grammar.score # 0
          THEN textResult.grammar.score
          ELSE enhancedGrammarScore(userResponse)
      vocabulary ==
        IF textResult # Null /\ textResult.vocabulary.score # 0
          THEN textResult.vocabulary.score
          ELSE enhancedVocabularyScore(userResponse)
      comprehension ==
        IF textResult # Null /\ textResult.content.relevance.num # 0
          THEN textResult.content.relevance
          ELSE enhancedComprehensionScore(userResponse, expectedAnswer)
      pronunciation ==
        IF audioResult # Null /\ audioResult.clarity.num # 0
          THEN audioResult.clarity
          ELSE Frac(pronunciationFromTextOf[userResponse], 1)
      fluency ==
        IF audioResult # Null /\ audioResult.speakingRate.num # 0
          THEN calculateFluencyFromRate(audioResult.speakingRate,
                                        audioResult.pauseRatio)
          ELSE fluencyFromTextOf[userResponse]
  IN [fluency |-> Number(Frac(MathRound(fluency, 1), 1)),
      pronunciation |-> Number(Frac(RoundFrac(pronunciation), 1)),
      grammar |-> Number(Frac(MathRound(grammar, 1), 1)),
      vocabulary |-> Number(Frac(MathRound(vocabulary, 1), 1)),
      comprehension |-> Number(Frac(RoundFrac(comprehension), 1))]

\* enhancedFallbackAssessment is not async: it returns at once an object
\* whose grammar, vocabulary and comprehension are the promises built with
\* then(...).catch(...) on the text analysis it starts again.
enhancedFallbackAssessment(userResponse, expectedAnswer, question, section, fault) ==
  LET textAnalysis ==
        intelligentTextAnalysis(userResponse, expectedAnswer, question,
                                section, fault)
      ok == textAnalysis.status = "fulfilled"
  IN [fluency |-> Number(Frac(fluencyFromTextOf[userResponse], 1)),
      pronunciation |->
        Number(Frac(pronunciationFromTextOf[userResponse], 1)),
      grammar |->
        IF ok THEN PromiseOf(Frac(textAnalysis.value.grammar.score, 1))
        ELSE IF fault = "grammar" THEN RejectedPromise
        ELSE PromiseOf(Frac(enhancedGrammarScore(userResponse), 1)),
      vocabulary |->
        IF ok THEN PromiseOf(Frac(textAnalysis.value.vocabulary.score, 1))
        ELSE IF fault = "vocabulary" THEN RejectedPromise
        ELSE PromiseOf(Frac(enhancedVocabularyScore(userResponse), 1)),
      comprehension |->
        IF ok THEN PromiseOf(textAnalysis.value.content.relevance)
        ELSE IF fault = "content" THEN RejectedPromise
        ELSE PromiseOf(enhancedComprehensionScore(userResponse,
                                                  expectedAnswer))]

\* The continuation of assessResponse after `await Promise.allSettled`:
\* lines 87-94, the catch included
assessResponseResume(in, textAnalysis, audioAnalysis) ==
  LET userResponse == Transcript[in.userResponse]
      expectedAnswer == expectedAnswerOf(in.expectedAnswer)
      textResult ==
        IF textAnalysis.status = "fulfilled" THEN textAnalysis.value ELSE Null
      audioResult ==
        IF audioAnalysis.status = "fulfilled" THEN audioAnalysis.value
        ELSE Null
  IN IF combineThrows(textResult, in.fault)
       THEN enhancedFallbackAssessment(userResponse, expectedAnswer,
                                       questionOf(in.question), in.section,
                                       in.fault)
       ELSE combineIntelligentResults(textResult, audioResult, userResponse,
                                      expectedAnswer)

\* ------------------------------------------------------------------------
\* Section / Overall Aggregator
\* ------------------------------------------------------------------------

\* calculateSectionScore with Math.floor in place of Math.round
calculateSectionScoreFloor(parameters) ==
  (parameters.fluency + parameters.pronunciation + parameters.grammar
   + parameters.vocabulary + parameters.comprehension) \div 5

\* Math.round((fluency + pronunciation + grammar + vocabulary +
\* comprehension) / 5)
calculateSectionScore(parameters) ==
  MathRound(parameters.fluency + parameters.pronunciation
            + parameters.grammar + parameters.vocabulary
            + parameters.comprehension, 5)

\* calculateOverallScore with Math.floor in place of Math.round
calculateOverallScoreFloor(sectionScores) ==
  IF Len(sectionScores) = 0 THEN 0
  ELSE SumSeq([i \in 1..Len(sectionScores) |-> sectionScores[i].score])
       \div Len(sectionScores)

\* sectionScores: a sequence of SectionScore records
calculateOverallScore(sectionScores) ==
  IF Len(sectionScores) = 0 THEN 0
  ELSE LET total == SumSeq([i \in 1..Len(sectionScores) |->
                              sectionScores[i].score])
       IN MathRound(total, Len(sectionScores))

\* Array.prototype.join(", "): the elements with ", " between them, as the
\* sequence of the pieces of the resulting string
JoinComma(list) ==
  [k \in 1..(2 * Len(list) - 1) |->
     IF k % 2 = 1 THEN list[(k + 1) \div 2] ELSE ", "]

DimensionNames ==
  <<"Fluency", "Pronunciation", "Grammar", "Vocabulary", "Comprehension">>

\* generateFeedback with `> 80` in place of `>= 80`
generateFeedbackStrict(parameters) ==
  LET scores == <<parameters.fluency, parameters.pronunciation,
                  parameters.grammar, parameters.vocabulary,
                  parameters.comprehension>>
      strengths == SubseqAt(DimensionNames, {i \in 1..5 : scores[i] > 80})
      weaknesses == SubseqAt(DimensionNames, {i \in 1..5 : scores[i] < 60})
      feedback ==
        (IF Len(strengths) > 0
           THEN <<"Strengths: ">> \o JoinComma(strengths) \o <<". ">>
           ELSE <<>>)
        \o (IF Len(weaknesses) > 0
              THEN <<"Areas to improve: ">> \o JoinComma(weaknesses)
                   \o <<". ">>
              ELSE <<>>)
  IN IF feedback = <<>>
       THEN <<"Good overall performance. Keep practicing to improve further.">>
       ELSE feedback

\* The feedback string, as the sequence of the pieces it is concatenated from
generateFeedback(parameters) ==
  LET scores == <<parameters.fluency, parameters.pronunciation,
                  parameters.grammar, parameters.vocabulary,
                  parameters.comprehension>>
      strengths == SubseqAt(DimensionNames, {i \in 1..5 : scores[i] >= 80})
      weaknesses == SubseqAt(DimensionNames, {i \in 1..5 : scores[i] < 60})
      feedback ==
        (IF Len(strengths) > 0
           THEN <<"Strengths: ">> \o JoinComma(strengths) \o <<". ">>
           ELSE <<>>)
        \o (IF Len(weaknesses) > 0
              THEN <<"Areas to improve: ">> \o JoinComma(weaknesses)
                   \o <<". ">>
              ELSE <<>>)
  IN IF feedback = <<>>
       THEN <<"Good overall performance. Keep practicing to improve further.">>
       ELSE feedback

getScoreFeedback(score) ==
  IF score >= 85
    THEN "Excellent performance! You are very well-prepared for the placement test."
  ELSE IF score >= 75
    THEN "Very good! Your communication skills are strong. Keep practicing to reach excellence."
  ELSE IF score >= 65
    THEN "Good effort! You have solid fundamentals. Focus on improving weak areas."
  ELSE IF score >= 55
    THEN "Fair performance. Dedicate more time to practice and improvement."
  ELSE "Keep practicing! Focus on all areas of communication skills."

\* getScoreLevel with `>` in place of `>=`
getScoreLevelStrict(score) ==
  IF score > 85 THEN "Excellent"
  ELSE IF score > 75 THEN "Very Good"
  ELSE IF score > 65 THEN "Good"
  ELSE IF score > 55 THEN "Fair"
  ELSE "Needs Improvement"

getScoreLevel(score) ==
  IF score >= 85 THEN "Excellent"
  ELSE IF score >= 75 THEN "Very Good"
  ELSE IF score >= 65 THEN "Good"
  ELSE IF score >= 55 THEN "Fair"
  ELSE "Needs Improvement"

\* ------------------------------------------------------------------------
\* State
\* ------------------------------------------------------------------------

\* The number of assessResponse calls that can be in flight together
NumCalls == 2

Calls == 1..NumCalls

\* The longest list of section scores handed to calculateOverallScore
MaxSections == 3

VARIABLES
  pc,             \* pc[c]: "idle", "awaiting" (at the await of line 82) or
                  \*        "resolved" (the promise of the call is fulfilled)
  input,          \* input[c]: the arguments of call c
  textAnalysis,   \* textAnalysis[c]: the promise of intelligentTextAnalysis
  audioAnalysis,  \* audioAnalysis[c]: the second element given to allSettled
  settled,        \* settled[c]: the elements allSettled has seen settle
  combineRuns,    \* combineRuns[c]: how often the Score Combiner was entered
  result,         \* result[c]: the object call c resolved with
  aggOp,          \* the aggregator function applied last
  aggIn,          \* its argument
  aggOut,         \* its result
  \* The test page (src/app/test/communication/page.tsx)
  currentSection,     \* useState: the section shown
  responses,          \* useState: the saved responses
  currentTestSession, \* useState: the id of the session of this test
  recorder,           \* the MediaRecorder: its state, its ondataavailable
                      \* handler and its queued dataavailable events
  saveCalls,          \* the calls of handleSaveResponse begun so far
  completion,         \* the call of saveTestSession
  stored,             \* what saveTestSession passed to updateTest
  now,                \* the clock read by Date.now() and new Date()
  saveLog,            \* history: the responses passed to setResponses by
                      \* handleSaveResponse, in order
  \* The TestSessionManager (src/unnamed/part_004)
  history,            \* this.history: sessions and usedQuestionSets
  created,            \* the session createNewTestSession returned last and
                      \* the recently used sets it was generated from
  sessionTime,        \* the clock read by Date.now() in createNewTestSession
  creates,            \* the calls of createNewTestSession so far
  \* FreeSpeechRecognition (src/lib/real-time-stt.ts)
  recognition,        \* the browser's SpeechRecognition: whether it exists,
                      \* its state, the results of its session and the
                      \* number of result events of the session
  freeSpeech,         \* isListening, finalTranscript and interimTranscript
  startPromise,       \* the promise of the last call of startListening and
                      \* the number of calls
  \* RealTimeSpeechToText (src/lib/real-time-stt.ts)
  realTime,           \* config.realTimeProvider, isListening, and the number
                      \* of calls of startListening
  webSpeech,          \* the WebSpeechSTT: whether it has a recognition, its
                      \* isListening, and the state of the recognition
  streaming,          \* the pending calls of getUserMedia, the mediaRecorder
                      \* and the streamingConnection
  attempt,            \* history: what became of the last attempt to start
                      \* the provider
  reported            \* the callback of the config called last

callVars ==
  <<pc, input, textAnalysis, audioAnalysis, settled, combineRuns, result>>

pageVars ==
  <<currentSection, responses, currentTestSession, recorder, saveCalls,
    completion, stored, now, saveLog>>

\* The variables outside the scoring engine
sessionVars == <<history, created, sessionTime, creates>>

speechVars == <<recognition, freeSpeech, startPromise>>

listenVars == <<realTime, webSpeech, streaming, attempt, reported>>

restVars == <<pageVars, sessionVars, speechVars, listenVars>>

aggVars == <<aggOp, aggIn, aggOut>>

vars == <<callVars, aggVars, restVars>>

\* The variables the test page leaves alone
outsidePage == <<callVars, aggVars, sessionVars, speechVars, listenVars>>

\* The variables the TestSessionManager leaves alone
outsideSessions == <<callVars, aggVars, pageVars, speechVars, listenVars>>

\* The variables FreeSpeechRecognition leaves alone
outsideSpeech == <<callVars, aggVars, pageVars, sessionVars, listenVars>>

\* The variables RealTimeSpeechToText leaves alone
outsideListening == <<callVars, aggVars, pageVars, sessionVars, speechVars>>

\* The arguments the calls of the two-call specification are drawn from
NarrowInputs ==
  [section : {"A"}, userResponse : {"coffee", "developer"},
   audioBlob : {"none", "corrupt", "stalled", "clear"},
   expectedAnswer : {"background"}, question : {"none"},
   fault : {"none", "sentiment"}]

\* The arguments the calls of the one-call specification are drawn from
WideInputs ==
  [section : Sections, userResponse : TranscriptIds,
   audioBlob : AudioBlobs \cup {"none"},
   expectedAnswer : HintIds, question : QuestionIds, fault : Faults]

Dimensions ==
  {"fluency", "pronunciation", "grammar", "vocabulary", "comprehension"}

\* ------------------------------------------------------------------------
\* The test page (src/app/test/communication/page.tsx)
\* ------------------------------------------------------------------------

\* const sections
PageSections == <<"A", "B", "C", "D", "E", "F", "G">>

\* The calls of handleSaveResponse of one behaviour
MaxSaves == 2

\* The readings of the clock of one behaviour
MaxClock == 4

\* The transcriptions generateSimulatedResponse returns, taken from the
\* transcripts of the model
SimulatedResponses == {"developer", "coffee"}

\* The section as the scoring engine of the model distinguishes it: the
\* sections without a case of their own in analyzeCompletenessForSection
\* take its default branch, as "C" does
engineSection(section) ==
  IF section \in {"A", "B", "G"} THEN section ELSE "C"

indexOfSection(section) ==
  CHOOSE i \in 1..Len(PageSections) : PageSections[i] = section

\* responsesBySection[section] of saveTestSession
responsesBySection(list, section) ==
  LET Of(r) == r.section = section
  IN SelectSeq(list, Of)

\* The first section from position i on that has a response, 0 if none
nextSectionWithResponses(list, i) ==
  LET later == {j \in i..Len(PageSections) :
                  Len(responsesBySection(list, PageSections[j])) > 0}
  IN IF later = {} THEN 0 ELSE KthSmallest(later, 1)

zeroParameters == [d \in Dimensions |-> 0]

\* The SectionScore saveTestSession pushes for a section whose count
\* responses were assessed with the sums of parameters sum: the parameters
\* are the quotients sum / count, the score is calculateSectionScore of them
sectionScoreOf(section, sum, count) ==
  [section |-> section,
   score |-> MathRound(sum["fluency"] + sum["pronunciation"] + sum["grammar"]
                       + sum["vocabulary"] + sum["comprehension"], 5 * count),
   parameters |-> [d \in Dimensions |-> Frac(sum[d], count)]]

idleCompletion ==
  [pc |-> "idle", responses |-> <<>>, session |-> 0, section |-> 0,
   response |-> 0, sum |-> zeroParameters, sectionScores |-> <<>>]

PageInit ==
  /\ currentSection = "A"
  /\ responses = <<>>
  /\ currentTestSession = 0
  /\ recorder = [state |-> "inactive", ondataavailable |-> 0, events |-> 0]
  /\ saveCalls = <<>>
  /\ completion = idleCompletion
  /\ stored = Null
  /\ now = 1
  /\ saveLog = <<>>

\* ---------------------------------------------------------------------
\* The question bank (src/lib/question-bank.ts) and the TestSessionManager
\* (src/unnamed/part_004)
\* ---------------------------------------------------------------------

\* The ids of the question sets of each section, in the order of the arrays
getAllQuestionSets ==
  [A |-> <<"set_a_1", "set_a_2", "set_a_3", "set_a_4", "set_a_5">>,
   B |-> <<"set_b_1", "set_b_2", "set_b_3", "set_b_4", "set_b_5">>,
   C |-> <<"set_c_1", "set_c_2", "set_c_3", "set_c_4", "set_c_5">>,
   D |-> <<"set_d_1", "set_d_2", "set_d_3", "set_d_4", "set_d_5">>,
   E |-> <<"set_e_1", "set_e_2", "set_e_3", "set_e_4", "set_e_5">>,
   F |-> <<"set_f_1", "set_f_2", "set_f_3", "set_f_4", "set_f_5">>,
   G |-> <<"set_g_1", "set_g_2", "set_g_3", "set_g_4", "set_g_5",
           "set_g_6", "set_g_7">>]

MAX_HISTORY_SIZE == 50

\* usedQuestionSets is cut when it is longer than this ...
UsedSetsLimit == 35

\* ... to this many of its last entries
UsedSetsKept == 20

\* The sessions getRecentlyUsedQuestionSets looks at
RecentSessions == 5

\* The creations of one run of the model
MaxCreates == 6

\* The sessions of the history found in localStorage by the constructor
StoredSessions == 48

\* The values of Math.random() of one creation, one for each section
RandomDraws ==
  { [section \in DOMAIN getAllQuestionSets |-> Frac(0, 1)],
    [section \in DOMAIN getAllQuestionSets |-> Frac(9, 10)],
    [section \in DOMAIN getAllQuestionSets |->
       IF section \in {"A", "C", "E", "G"} THEN Frac(1, 2) ELSE Frac(0, 1)] }

\* list.includes(id)
listIncludes(list, id) == \E i \in 1..Len(list) : list[i] = id

\* list.slice(-n)
lastOf(list, n) ==
  IF Len(list) <= n THEN list ELSE SubSeq(list, Len(list) - n + 1, Len(list))

\* ids.forEach(id => { if (!list.includes(id)) list.push(id) }): list, and
\* after it each id that is neither in list nor earlier in ids
pushEachNew(list, ids) ==
  LET pushed == {i \in 1..Len(ids) :
                   /\ ~listIncludes(list, ids[i])
                   /\ \A j \in 1..(i - 1) : ids[j] # ids[i]}
  IN list \o [k \in 1..Cardinality(pushed) |-> ids[KthSmallest(pushed, k)]]

\* Object.values(questionSets), in insertion order
valuesOf(questionSets) ==
  <<questionSets.A, questionSets.B, questionSets.C, questionSets.D,
    questionSets.E, questionSets.F, questionSets.G>>

\* sectionQuestions[Math.floor(Math.random() * sectionQuestions.length)]
getRandomQuestionSet(sectionQuestions, random) ==
  sectionQuestions[((random.num * Len(sectionQuestions)) \div random.den) + 1]

\* A selection that leaves the recently used sets in
availableSetsUnfiltered(sectionSets, previousTestIds) == sectionSets

\* sectionSets.filter(set => !previousTestIds.includes(set.id))
availableSets(sectionSets, previousTestIds) ==
  LET Unused(id) == ~listIncludes(previousTestIds, id)
  IN SelectSeq(sectionSets, Unused)

setsToChooseFrom(sectionSets, previousTestIds) ==
  IF Len(availableSets(sectionSets, previousTestIds)) > 0
  THEN availableSets(sectionSets, previousTestIds)
  ELSE sectionSets

\* The id of the set selected for each section
generateTestQuestions(previousTestIds, random) ==
  LET selectedSet(section) ==
        getRandomQuestionSet(
          setsToChooseFrom(getAllQuestionSets[section], previousTestIds),
          random[section])
  IN [A |-> selectedSet("A"), B |-> selectedSet("B"), C |-> selectedSet("C"),
      D |-> selectedSet("D"), E |-> selectedSet("E"), F |-> selectedSet("F"),
      G |-> selectedSet("G")]

\* recentSessions.forEach(session => ...): the ids of the sessions, each once
RECURSIVE recentSetsOf(_)
recentSetsOf(recentSessions) ==
  IF recentSessions = <<>> THEN <<>>
  ELSE pushEachNew(recentSetsOf(SubSeq(recentSessions, 1,
                                       Len(recentSessions) - 1)),
                   valuesOf(recentSessions[Len(recentSessions)].questionSets))

getRecentlyUsedQuestionSets(h) ==
  recentSetsOf(lastOf(h.sessions, RecentSessions))

\* if (sessions.length > MAX_HISTORY_SIZE) sessions.slice(-MAX_HISTORY_SIZE)
keptSessions(sessions) ==
  IF Len(sessions) > MAX_HISTORY_SIZE
  THEN lastOf(sessions, MAX_HISTORY_SIZE) ELSE sessions

\* A list of used question sets that is never cut
keptUsedQuestionSetsUncut(used) == used

\* if (usedQuestionSets.length > 35) usedQuestionSets.slice(-20)
keptUsedQuestionSets(used) ==
  IF Len(used) > UsedSetsLimit THEN lastOf(used, UsedSetsKept) ELSE used

newSession(id, questionSetIds) ==
  [id |-> id, status |-> "not-started", questionSets |-> questionSetIds,
   totalScore |-> Undefined]

\* The history createNewTestSession leaves, for the session it made
historyWith(h, session) ==
  [sessions |-> keptSessions(Append(h.sessions, session)),
   usedQuestionSets |->
     keptUsedQuestionSets(pushEachNew(h.usedQuestionSets,
                                      valuesOf(session.questionSets)))]

emptyHistory == [sessions |-> <<>>, usedQuestionSets |-> <<>>]

\* The history h grown to n sessions by createNewTestSession, each time with
\* Math.random() giving 0 and Date.now() the number of the session
RECURSIVE historyAfter(_, _)
historyAfter(h, n) ==
  IF Len(h.sessions) >= n THEN h
  ELSE historyAfter(
         historyWith(h,
           newSession(Len(h.sessions) + 1,
             generateTestQuestions(getRecentlyUsedQuestionSets(h),
               [section \in DOMAIN getAllQuestionSets |-> Frac(0, 1)]))),
         n)

storedHistory == historyAfter(emptyHistory, StoredSessions)

\* loadHistory with nothing in localStorage
SessionInit ==
  /\ history = emptyHistory
  /\ sessionTime = 1
  /\ created = Null
  /\ creates = 0

\* loadHistory: what localStorage holds, nothing or an earlier history
SessionInitStored ==
  /\ \/ history = emptyHistory /\ sessionTime = 1
     \/ history = storedHistory /\ sessionTime = StoredSessions + 1
  /\ created = Null
  /\ creates = 0

\* ---------------------------------------------------------------------
\* FreeSpeechRecognition (src/lib/real-time-stt.ts) on the browser's
\* SpeechRecognition object
\* ---------------------------------------------------------------------

\* The result events of one recognition
MaxEvents == 3

\* The calls of FreeSpeechRecognition.startListening of one run
MaxStarts == 2

\* The transcripts of the results
ResultTranscripts == {<<"h", "i">>, <<"y", "o", "u">>}

\* After the constructor, in a browser with exists = TRUE or without a
\* SpeechRecognition
SpeechInitIn(exists) ==
  /\ recognition = [exists |-> exists, state |-> "idle", results |-> <<>>,
                    events |-> 0]
  /\ freeSpeech = [isListening |-> FALSE, finalTranscript |-> <<>>,
                   interimTranscript |-> <<>>]
  /\ startPromise = [calls |-> 0, state |-> "none"]

SpeechInit == SpeechInitIn(TRUE)

\* ---------------------------------------------------------------------
\* RealTimeSpeechToText (src/lib/real-time-stt.ts) on WebSpeechSTT
\* (src/lib/speech-to-text.ts) or on a streaming connection
\* ---------------------------------------------------------------------

\* The calls of RealTimeSpeechToText.startListening of one run
MaxListenCalls == 3

\* After the constructors, for the given config.realTimeProvider, in a
\* browser with exists = TRUE or without a SpeechRecognition
ListenInitIn(provider, exists) ==
  /\ realTime = [provider |-> provider, isListening |-> FALSE, calls |-> 0]
  /\ webSpeech = [recognition |-> exists, isListening |-> FALSE,
                  state |-> "idle"]
  /\ streaming = [getUserMedia |-> 0, mediaRecorder |-> "none",
                  streamingConnection |-> "none"]
  /\ attempt = "none"
  /\ reported = "none"

ListenInit == ListenInitIn("webspeech", TRUE)

\* The state of the assessment calls and of the aggregator before any call
CallInit ==
  /\ pc = [c \in Calls |-> "idle"]
  /\ input = [c \in Calls |-> Null]
  /\ textAnalysis = [c \in Calls |-> Pending]
  /\ audioAnalysis = [c \in Calls |-> Pending]
  /\ settled = [c \in Calls |-> {}]
  /\ combineRuns = [c \in Calls |-> 0]
  /\ result = [c \in Calls |-> Null]
  /\ aggOp = "none"
  /\ aggIn = Null
  /\ aggOut = Null

Init ==
  /\ CallInit
  /\ PageInit
  /\ SessionInit
  /\ SpeechInit
  /\ ListenInit

\* ------------------------------------------------------------------------
\* assessResponse, step by step
\* ------------------------------------------------------------------------

\* The call up to `await Promise.allSettled([...])`: the text analysis runs
\* to its end (its promise is settled on return); freeAudioAnalysis, when a
\* recording was passed, stops at its await of blobToAudioBuffer; with no
\* recording the second element is the value null.
Start(c, in) ==
  /\ pc[c] = "idle"
  /\ pc' = [pc EXCEPT ![c] = "awaiting"]
  /\ input' = [input EXCEPT ![c] = in]
  /\ textAnalysis' =
       [textAnalysis EXCEPT ![c] =
          intelligentTextAnalysis(Transcript[in.userResponse],
                                  expectedAnswerOf(in.expectedAnswer),
                                  questionOf(in.question), in.section,
                                  in.fault)]
  /\ audioAnalysis' =
       [audioAnalysis EXCEPT ![c] =
          IF in.audioBlob = "none" THEN Fulfilled(Null) ELSE Pending]
  /\ UNCHANGED <<settled, combineRuns, result, aggVars, restVars>>

\* allSettled sees the text promise settled (fulfilled or rejected)
SettleText(c) ==
  /\ pc[c] = "awaiting"
  /\ "text" \notin settled[c]
  /\ settled' = [settled EXCEPT ![c] = @ \cup {"text"}]
  /\ UNCHANGED <<pc, input, textAnalysis, audioAnalysis, combineRuns, result,
                 aggVars, restVars>>

\* allSettled sees the null passed in place of an audio analysis
SettleNoAudio(c) ==
  /\ pc[c] = "awaiting"
  /\ input[c].audioBlob = "none"
  /\ "audio" \notin settled[c]
  /\ settled' = [settled EXCEPT ![c] = @ \cup {"audio"}]
  /\ UNCHANGED <<pc, input, textAnalysis, audioAnalysis, combineRuns, result,
                 aggVars, restVars>>

\* freeAudioAnalysis: blobToAudioBuffer resolves and the metrics are returned
AudioDecoded(c) ==
  /\ pc[c] = "awaiting"
  /\ input[c].audioBlob \in DecodableBlobs
  /\ audioAnalysis[c].status = "pending"
  /\ audioAnalysis' =
       [audioAnalysis EXCEPT ![c] =
          Fulfilled(extractAudioMetrics(input[c].audioBlob))]
  /\ settled' = [settled EXCEPT ![c] = @ \cup {"audio"}]
  /\ UNCHANGED <<pc, input, textAnalysis, combineRuns, result, aggVars, restVars>>

\* freeAudioAnalysis: decoding or metric extraction throws; the catch
\* returns null, so the promise is fulfilled with null
AudioFailed(c) ==
  /\ pc[c] = "awaiting"
  /\ input[c].audioBlob = "corrupt"
  /\ audioAnalysis[c].status = "pending"
  /\ audioAnalysis' = [audioAnalysis EXCEPT ![c] = Fulfilled(Null)]
  /\ settled' = [settled EXCEPT ![c] = @ \cup {"audio"}]
  /\ UNCHANGED <<pc, input, textAnalysis, combineRuns, result, aggVars, restVars>>

\* A join that resolves as soon as one element has settled (Promise.race)
JoinReadyFirst(c) == settled[c] # {}

\* Promise.allSettled resolves once every element has settled
JoinReady(c) == settled[c] = {"text", "audio"}

\* const [textAnalysis, audioAnalysis] = await ...: the outcomes the
\* continuation of call c reads
settledText(c) == textAnalysis[c]

\* The audio outcome kept in one module-level slot shared by the calls
settledAudioShared(c) == audioAnalysis[1]

settledAudio(c) == audioAnalysis[c]

\* The continuation after the await: the Score Combiner, its catch, and the
\* resolution of the call
Resume(c) ==
  /\ pc[c] = "awaiting"
  /\ JoinReady(c)
  /\ combineRuns' = [combineRuns EXCEPT ![c] = @ + 1]
  /\ result' = [result EXCEPT ![c] =
                  assessResponseResume(input[c], settledText(c),
                                       settledAudio(c))]
  /\ pc' = [pc EXCEPT ![c] = "resolved"]
  /\ UNCHANGED <<input, textAnalysis, audioAnalysis, settled, aggVars, restVars>>

Step(c) ==
  \/ SettleText(c)
  \/ SettleNoAudio(c)
  \/ AudioDecoded(c)
  \/ AudioFailed(c)
  \/ Resume(c)

\* Several calls in flight together
Next ==
  \E c \in Calls :
    \/ \E in \in NarrowInputs : Start(c, in)
    \/ Step(c)

Spec == Init /\ [][Next]_vars

\* One call, over all the inputs of the model
AssessNext ==
  \/ \E in \in WideInputs : Start(1, in)
  \/ Step(1)

AssessSpec == Init /\ [][AssessNext]_vars

\* The event loop runs every continuation that is ready, and a recording
\* that can be decoded, or fails to decode, does so in the end.  Nothing
\* makes the decoding of a stalled recording end.
Fairness ==
  \A c \in Calls :
    /\ WF_vars(SettleText(c))
    /\ WF_vars(SettleNoAudio(c))
    /\ WF_vars(AudioDecoded(c))
    /\ WF_vars(AudioFailed(c))
    /\ WF_vars(Resume(c))

LiveSpec == Init /\ [][Next]_vars /\ Fairness

\* ------------------------------------------------------------------------
\* The aggregator functions, applied to arguments drawn from bounded sets.
\* A behaviour applies one function to one argument.
\* ------------------------------------------------------------------------

\* Dimension scores around the thresholds of generateFeedback, with 0, 1, 2
\* to reach every remainder of the sum modulo 5
ParamValues == {0, 1, 2, 59, 60, 79, 80, 100}

ParamSpace ==
  [fluency : ParamValues, pronunciation : ParamValues, grammar : ParamValues,
   vocabulary : ParamValues, comprehension : ParamValues]

\* Scores of the sections of a sitting
SectionScoreValues == {0, 1, 54, 55, 100}

SectionNames == <<"A", "B", "C", "D", "E", "F", "G">>

ApplySectionScore ==
  /\ aggOp = "none"
  /\ \E p \in ParamSpace :
       /\ aggOp' = "calculateSectionScore"
       /\ aggIn' = p
       /\ aggOut' = calculateSectionScore(p)
  /\ UNCHANGED <<callVars, restVars>>

ApplyOverallScore ==
  /\ aggOp = "none"
  /\ \E n \in 0..MaxSections :
       \E s \in [1..n -> SectionScoreValues] :
         LET sectionScores ==
               [i \in 1..n |-> [section |-> SectionNames[i], score |-> s[i]]]
         IN /\ aggOp' = "calculateOverallScore"
            /\ aggIn' = sectionScores
            /\ aggOut' = calculateOverallScore(sectionScores)
  /\ UNCHANGED <<callVars, restVars>>

ApplyFeedback ==
  /\ aggOp = "none"
  /\ \E p \in ParamSpace :
       /\ aggOp' = "generateFeedback"
       /\ aggIn' = p
       /\ aggOut' = generateFeedback(p)
  /\ UNCHANGED <<callVars, restVars>>

\* The results page shows getScoreLevel and getScoreFeedback of one score
ApplyScoreLabels ==
  /\ aggOp = "none"
  /\ \E score \in 0..100 :
       /\ aggOp' = "scoreLabels"
       /\ aggIn' = score
       /\ aggOut' = [level |-> getScoreLevel(score),
                     feedback |-> getScoreFeedback(score)]
  /\ UNCHANGED <<callVars, restVars>>

AggNext ==
  \/ ApplySectionScore
  \/ ApplyOverallScore
  \/ ApplyFeedback
  \/ ApplyScoreLabels

AggSpec == Init /\ [][AggNext]_vars

\* ------------------------------------------------------------------------
\* Properties
\* ------------------------------------------------------------------------

\* A field that holds an integer in [0,100]
IsScore(field) ==
  /\ field.kind = "number"
  /\ field.val.num % field.val.den = 0
  /\ field.val.num \div field.val.den \in 0..100

\* What a call with the arguments `in` resolves with when it runs with no
\* other call: the text analysis, then the audio analysis, then the
\* continuation.  A call on a stalled recording resolves with nothing.
assessAlone(in) ==
  LET text == intelligentTextAnalysis(Transcript[in.userResponse],
                                      expectedAnswerOf(in.expectedAnswer),
                                      questionOf(in.question), in.section,
                                      in.fault)
      audio == IF in.audioBlob \in DecodableBlobs
                 THEN Fulfilled(extractAudioMetrics(in.audioBlob))
                 ELSE Fulfilled(Null)
  IN assessResponseResume(in, text, audio)

\* C1: whatever the transcript (the empty one included), with the audio
\* absent, decoded or failing to decode and with or without a hint, a call in
\* which no analyzer throws resolves with an object whose five fields are
\* numbers, each an integer in [0,100].
C1_FiveScoresInRange ==
  \A c \in Calls :
    (pc[c] = "resolved" /\ input[c].fault = "none") =>
      \A d \in Dimensions : IsScore(result[c][d])

\* A call on the transcript whose raw vocabulary score exceeds 100 resolved
\* after its recording was decoded, with a hint, the comprehension rounded
\* from 62.5
C1_Witness ==
  /\ pc[1] = "resolved"
  /\ input[1].fault = "none"
  /\ input[1].userResponse = "learned"
  /\ input[1].audioBlob = "hurried"
  /\ input[1].expectedAnswer = "background"
  /\ result[1].vocabulary = Number(Frac(100, 1))
  /\ result[1].comprehension = Number(Frac(63, 1))
  /\ result[1].pronunciation = Number(Frac(76, 1))

\* The dimensions an analyzer feeds
FedBy(analyzer) ==
  CASE analyzer = "grammar" -> {"grammar"}
    [] analyzer = "vocabulary" -> {"vocabulary"}
    [] analyzer = "content" -> {"comprehension"}
    [] OTHER -> {}

\* C2: when one analyzer throws, the call still resolves with five numbers,
\* and every dimension the failed analyzer does not feed has the value it has
\* in the run in which nothing fails (the catch path included).
C2_OneFailureKeepsFiveNumbers ==
  \A c \in Calls :
    (pc[c] = "resolved" /\ input[c].fault \in Analyzers) =>
      LET clean == assessAlone([input[c] EXCEPT !.fault = "none"])
      IN \A d \in Dimensions :
           /\ result[c][d].kind = "number"
           /\ d \notin FedBy(input[c].fault) => result[c][d] = clean[d]

\* C3: every call that has reached its await resolves in the end, also when
\* the decoding of its recording never completes.
C3_EveryCallResolves ==
  \A c \in Calls : (pc[c] = "awaiting") ~> (pc[c] = "resolved")

\* C4: a call with no recording, or with a recording that fails to decode,
\* resolves with the text-only fluency and pronunciation, and with the
\* grammar, vocabulary and comprehension of a call on the same transcript
\* and hint whose recording was decoded.
C4_TextOnlyFallback ==
  \A c \in Calls :
    (pc[c] = "resolved" /\ input[c].audioBlob \in {"none", "corrupt"}) =>
      LET text == Transcript[input[c].userResponse]
      IN /\ result[c].fluency = Number(Frac(fluencyFromTextOf[text], 1))
         /\ result[c].pronunciation =
              Number(Frac(pronunciationFromTextOf[text], 1))
         /\ \A d \in Calls :
              ( /\ pc[d] = "resolved"
                /\ input[d].audioBlob \in DecodableBlobs
                /\ input[d].userResponse = input[c].userResponse
                /\ input[d].expectedAnswer = input[c].expectedAnswer
                /\ input[d].fault = input[c].fault ) =>
                /\ result[c].grammar = result[d].grammar
                /\ result[c].vocabulary = result[d].vocabulary
                /\ result[c].comprehension = result[d].comprehension

\* Call 1 resolved after its recording failed to decode, call 2 on the same
\* transcript after its recording was decoded, and the two differ in
\* pronunciation
C4_Witness ==
  /\ pc[1] = "resolved" /\ pc[2] = "resolved"
  /\ input[1].audioBlob = "corrupt"
  /\ input[2].audioBlob = "clear"
  /\ input[1].userResponse = input[2].userResponse
  /\ input[1].fault = input[2].fault
  /\ result[1].pronunciation # result[2].pronunciation
  /\ result[1].grammar = result[2].grammar

C7_SectionScoreIsRoundedMean ==
  aggOp = "calculateSectionScore" =>
    LET sum == aggIn.fluency + aggIn.pronunciation + aggIn.grammar
               + aggIn.vocabulary + aggIn.comprehension
    IN /\ aggOut \in 0..100
       /\ 5 * aggOut - sum \in -2..2
       /\ \A v \in ParamValues :
            (\A d \in Dimensions : aggIn[d] = v) => aggOut = v

\* A mean of 79.6 was rounded up to 80
C7_Witness ==
  /\ aggOp = "calculateSectionScore"
  /\ aggIn = [fluency |-> 80, pronunciation |-> 80, grammar |-> 80,
              vocabulary |-> 79, comprehension |-> 79]
  /\ aggOut = 80

\* C8: the overall score is 0 for no section; otherwise it is the mean of the
\* section scores rounded to the nearest integer, a mean ending in .5 rounded
\* up, and it lies between the least and the greatest section score.
C8_OverallScoreIsRoundedMean ==
  aggOp = "calculateOverallScore" =>
    LET n == Len(aggIn)
        total == SumSeq([i \in 1..n |-> aggIn[i].score])
    IN IF n = 0 THEN aggOut = 0
       ELSE /\ aggOut \in 0..100
            /\ 2 * n * aggOut <= 2 * total + n
            /\ 2 * total + n < 2 * n * aggOut + 2 * n
            /\ \E i \in 1..n : aggIn[i].score <= aggOut
            /\ \E i \in 1..n : aggOut <= aggIn[i].score

\* A mean of 54.5 was rounded up to 55
C8_Witness ==
  /\ aggOp = "calculateOverallScore"
  /\ Len(aggIn) = 2
  /\ aggIn[1].score = 54 /\ aggIn[2].score = 55
  /\ aggOut = 55

\* The level the breakpoint table gives a score
LevelOfTable(score) ==
  CASE score >= 85 -> "Excellent"
    [] score >= 75 /\ score <= 84 -> "Very Good"
    [] score >= 65 /\ score <= 74 -> "Good"
    [] score >= 55 /\ score <= 64 -> "Fair"
    [] score <= 54 -> "Needs Improvement"

\* C9: for every integer score in 0..100 the level is the one of the table
\* (Excellent from 85, Very Good 75..84, Good 65..74, Fair 55..64, Needs
\* Improvement up to 54), and another score has the same feedback sentence
\* exactly when it has the same level.
C9_LevelBreakpoints ==
  aggOp = "scoreLabels" =>
    /\ aggOut.level = LevelOfTable(aggIn)
    /\ \A other \in 0..100 :
         (getScoreFeedback(other) = aggOut.feedback)
           <=> (getScoreLevel(other) = aggOut.level)

\* The score 85, on the boundary, was labelled Excellent
C9_Witness ==
  /\ aggOp = "scoreLabels"
  /\ aggIn = 85
  /\ aggOut.level = "Excellent"

\* The names a feedback string lists after a header, up to the ". " that
\* closes the list
ListedUnder(feedback, header) ==
  LET at == {i \in 1..Len(feedback) : feedback[i] = header}
  IN IF at = {} THEN <<>>
     ELSE LET h == KthSmallest(at, 1)
              close == KthSmallest({i \in (h + 1)..Len(feedback) :
                                      feedback[i] = ". "}, 1)
              IsName(x) == x # ", "
          IN SelectSeq(SubSeq(feedback, h + 1, close - 1), IsName)

\* The dimension names, in the fixed order, whose score is in the set
NamesScoring(parameters, wanted) ==
  LET scores == <<parameters.fluency, parameters.pronunciation,
                  parameters.grammar, parameters.vocabulary,
                  parameters.comprehension>>
      IsWanted(name) ==
        \E i \in 1..5 : DimensionNames[i] = name /\ scores[i] \in wanted
  IN SelectSeq(DimensionNames, IsWanted)

\* C10: the feedback lists under "Strengths" exactly the dimensions scoring
\* at least 80 and under "Areas to improve" exactly those scoring below 60,
\* both in the order Fluency, Pronunciation, Grammar, Vocabulary,
\* Comprehension; no dimension is in both lists; and the generic sentence is
\* returned exactly when all five dimensions are in 60..79.
C10_FeedbackLists ==
  aggOp = "generateFeedback" =>
    LET strengths == ListedUnder(aggOut, "Strengths: ")
        weaknesses == ListedUnder(aggOut, "Areas to improve: ")
    IN /\ strengths = NamesScoring(aggIn, 80..100)
       /\ weaknesses = NamesScoring(aggIn, 0..59)
       /\ SeqRange(strengths) \cap SeqRange(weaknesses) = {}
       /\ (aggOut = <<"Good overall performance. Keep practicing to improve further.">>)
            <=> (\A d \in Dimensions : aggIn[d] \in 60..79)

\* Two strengths, one of them scoring exactly 80, and two weaknesses
C10_Witness ==
  /\ aggOp = "generateFeedback"
  /\ aggIn = [fluency |-> 80, pronunciation |-> 59, grammar |-> 60,
              vocabulary |-> 100, comprehension |-> 0]
  /\ aggOut = <<"Strengths: ", "Fluency", ", ", "Vocabulary", ". ",
                "Areas to improve: ", "Pronunciation", ", ",
                "Comprehension", ". ">>

\* ------------------------------------------------------------------------
\* Empty input, relevance and the end-to-end example
\* ------------------------------------------------------------------------

\* text.toLowerCase().split(/\s+/) of a transcript or a hint
wordsOf(text) == splitWhitespace(toLowerCase(text))

\* The positions of the hint's tokens that some word of the text contains
tokensContained(text, expectedAnswer) ==
  LET userWords == wordsOf(text)
      expectedWords == wordsOf(expectedAnswer)
  IN {e \in 1..Len(expectedWords) :
        \E u \in 1..Len(userWords) : includes(userWords[u], expectedWords[e])}

\* A transcript that is not blank and contains every token of the hint
containsHint(text, expectedAnswer) ==
  /\ trim(text) # <<>>
  /\ tokensContained(text, expectedAnswer)
       = 1..Len(wordsOf(expectedAnswer))

\* C11: a call of section A on the empty or the blank transcript, with or
\* without a hint, resolves with five integers in [0,100]; with a hint, the
\* transcript matches none of the hint's tokens (so the comprehension is the
\* 50 of no match), and no score is higher than the score of the same
\* dimension for a transcript that contains the hint's tokens.
C11_EmptyTranscriptScoresLow ==
  \A c \in Calls :
    ( /\ pc[c] = "resolved"
      /\ input[c].fault = "none"
      /\ input[c].section = "A"
      /\ input[c].userResponse \in {"empty", "blank"} ) =>
      /\ \A d \in Dimensions : IsScore(result[c][d])
      /\ input[c].expectedAnswer # "none" =>
           LET text == Transcript[input[c].userResponse]
               hint == Hint[input[c].expectedAnswer]
           IN /\ countMatchingConcepts(wordsOf(text), wordsOf(hint)) = 0
              /\ result[c].comprehension = Number(Frac(50, 1))
              /\ \A t \in TranscriptIds :
                   containsHint(Transcript[t], hint) =>
                     LET full == assessAlone([input[c] EXCEPT
                                                !.userResponse = t])
                     IN \A d \in Dimensions :
                          result[c][d].val.num <= full[d].val.num

\* ------------------------------------------------------------------------
\* The analyzers, applied to arguments drawn from the pools.  A behaviour
\* applies one analyzer to one argument (the Grammar Analyzer: to a few
\* texts one after the other).
\* ------------------------------------------------------------------------

ContentArgs ==
  [userResponse : TranscriptIds, expectedAnswer : HintIds,
   question : QuestionIds, section : Sections]

ApplyContent ==
  /\ aggOp = "none"
  /\ \E a \in ContentArgs :
       /\ aggOp' = "analyzeContentFree"
       /\ aggIn' = a
       /\ aggOut' = contentOf[Transcript[a.userResponse]]
                             [expectedAnswerOf(a.expectedAnswer)]
                             [questionOf(a.question)][a.section]
  /\ UNCHANGED <<callVars, restVars>>

\* The most calls of the Grammar Analyzer made one after the other
MaxGrammarCalls == 3

\* The texts and the results of the calls of the Grammar Analyzer so far
grammarCallTexts == IF aggOp = "analyzeGrammarFree" THEN aggIn ELSE <<>>

grammarCallResults == IF aggOp = "analyzeGrammarFree" THEN aggOut ELSE <<>>

\* A list that lives outside the function and keeps what the previous call
\* left in it
listAtEntryKept(previous) == previous

\* const errors: string[] = [], const suggestions: string[] = []: the lists
\* are created empty by each call, whatever the previous call left
listAtEntry(previous) == <<>>

\* One more call of analyzeGrammarFree, after the calls made so far
CallGrammar ==
  /\ aggOp \in {"none", "analyzeGrammarFree"}
  /\ Len(grammarCallTexts) < MaxGrammarCalls
  /\ \E t \in TranscriptIds :
       LET done == grammarCallResults
           last == IF done = <<>>
                     THEN [errors |-> <<>>, suggestions |-> <<>>]
                     ELSE done[Len(done)]
           analysis == grammarOf[Transcript[t]]
       IN /\ aggOp' = "analyzeGrammarFree"
          /\ aggIn' = Append(grammarCallTexts, t)
          /\ aggOut' =
               Append(done,
                      [score |-> analysis.score,
                       errors |-> listAtEntry(last.errors) \o analysis.errors,
                       suggestions |-> listAtEntry(last.suggestions)
                                         \o analysis.suggestions])
  /\ UNCHANGED <<callVars, restVars>>

\* Speaking rates in words per minute, on and around the band limits of
\* calculateFluencyFromRate
SpeakingRates ==
  {Frac(n, 1) : n \in {1, 99, 100, 119, 120, 139, 140, 160, 180, 181, 200,
                       201, 220, 221, 1000}}
    \cup {Frac(451, 2)}

\* Pause ratios in hundredths, on and around 0.1, 0.3 and 0.4
PauseRatios ==
  {Frac(n, 100) : n \in {0, 5, 10, 11, 20, 29, 30, 35, 40, 41, 50, 100}}

ApplyFluencyFromRate ==
  /\ aggOp = "none"
  /\ \E speakingRate \in SpeakingRates, pauseRatio \in PauseRatios :
       /\ aggOp' = "calculateFluencyFromRate"
       /\ aggIn' = [speakingRate |-> speakingRate, pauseRatio |-> pauseRatio]
       /\ aggOut' = calculateFluencyFromRate(speakingRate, pauseRatio)
  /\ UNCHANGED <<callVars, restVars>>

ApplyFluencyFromText ==
  /\ aggOp = "none"
  /\ \E t \in TranscriptIds :
       /\ aggOp' = "estimateFluencyFromText"
       /\ aggIn' = t
       /\ aggOut' = fluencyFromTextOf[Transcript[t]]
  /\ UNCHANGED <<callVars, restVars>>

ApplyVocabulary ==
  /\ aggOp = "none"
  /\ \E t \in TranscriptIds :
       /\ aggOp' = "analyzeVocabularyFree"
       /\ aggIn' = t
       /\ aggOut' = vocabularyOf[Transcript[t]]
  /\ UNCHANGED <<callVars, restVars>>

\* ------------------------------------------------------------------------
\* NLPAnalyzer (src/lib/nlp-analysis.ts): the vocabulary analysis
\* ------------------------------------------------------------------------

\* The quotient 0 / 0 of two JavaScript numbers.  Every comparison with it
\* is false, which the cross-multiplied comparisons of fractions give for
\* numerator 0 and denominator 0.
NaN == Frac(0, 0)

\* n / d for integers n >= 0 and d >= 0, where d = 0 only if n = 0
Quotient(n, d) == IF d = 0 /\ n = 0 THEN NaN ELSE Frac(n, d)

Vowels == {"a", "e", "i", "o", "u", "y"}

estimateSyllables(word) ==
  LET w == toLowerCase(word)
      runs == {i \in 1..Len(w) :
                 /\ w[i] \in Vowels
                 /\ i = 1 \/ w[i - 1] \notin Vowels}
      vowels == IF runs = {} THEN 1 ELSE Cardinality(runs)
      syllableCount == IF w[Len(w)] = "e" THEN vowels - 1 ELSE vowels
  IN IF Len(w) <= 3 THEN 1
     ELSE IF syllableCount = 0 THEN 1 ELSE syllableCount

\* 206.835 - 1.015 * (words / sentences) - 84.6 * (syllables / words), kept
\* exact
calculateReadabilityScore(text) ==
  LET sentences == Len(splitSentences(text))
      pieces == splitWhitespace(text)
      words == Len(pieces)
      syllables == SumSeq([i \in 1..words |-> estimateSyllables(pieces[i])])
  IN IF sentences = 0 \/ words = 0 THEN Frac(0, 1)
     ELSE Frac(206835 * sentences * words - 1015 * words * words
                 - 84600 * syllables * sentences,
               1000 * sentences * words)

calculateVocabularyScore(metrics) ==
  LET d == metrics.lexicalDiversity
      a == metrics.averageWordLength
      complexWordRatio == Quotient(metrics.complexWords, metrics.totalWords)
      c == complexWordRatio
      score == 50
               + (IF 10 * d.num > 7 * d.den THEN 25
                  ELSE IF 10 * d.num > 5 * d.den THEN 15
                  ELSE IF 10 * d.num > 3 * d.den THEN 10 ELSE 0)
               + (IF a.num > 6 * a.den THEN 15
                  ELSE IF a.num > 5 * a.den THEN 10
                  ELSE IF a.num > 4 * a.den THEN 5 ELSE 0)
               + (IF 10 * c.num > 3 * c.den THEN 10
                  ELSE IF 10 * c.num > 2 * c.den THEN 5 ELSE 0)
  IN Min(100, score)

\* NLPAnalyzer.analyzeVocabulary; the value its promise is fulfilled with.
\* With the characters of the model the matches of /\b\w+\b/g are the runs
\* of letters.
analyzeVocabulary(text) ==
  LET words == matchLetterRuns(toLowerCase(text))
      uniqueWords == Cardinality(SeqRange(words))
      totalWords == Len(words)
      averageWordLength ==
        Quotient(SumSeq([i \in 1..totalWords |-> Len(words[i])]), totalWords)
      IsComplex(word) == Len(word) >= 7 \/ estimateSyllables(word) >= 3
      complexWords == SelectSeq(words, IsComplex)
      lexicalDiversity == Quotient(uniqueWords, totalWords)
      readabilityScore == calculateReadabilityScore(text)
      score == calculateVocabularyScore(
                 [uniqueWords |-> uniqueWords,
                  totalWords |-> totalWords,
                  averageWordLength |-> averageWordLength,
                  complexWords |-> Len(complexWords),
                  lexicalDiversity |-> lexicalDiversity,
                  readabilityScore |-> readabilityScore])
      first == {i \in 1..Len(complexWords) :
                  \A j \in 1..(i - 1) : complexWords[j] # complexWords[i]}
  IN [score |-> score,
      uniqueWords |-> uniqueWords,
      totalWords |-> totalWords,
      averageWordLength |-> averageWordLength,
      complexWords |-> SubseqAt(complexWords, first),
      readabilityScore |-> readabilityScore,
      lexicalDiversity |-> lexicalDiversity]

nlpVocabularyOf == [text \in Texts |-> analyzeVocabulary(text)]

ApplyNLPVocabulary ==
  /\ aggOp = "none"
  /\ \E t \in TranscriptIds :
       /\ aggOp' = "NLPAnalyzer.analyzeVocabulary"
       /\ aggIn' = t
       /\ aggOut' = nlpVocabularyOf[Transcript[t]]
  /\ UNCHANGED <<callVars, restVars>>

AnalyzeNext ==
  \/ ApplyContent
  \/ CallGrammar
  \/ ApplyFluencyFromRate
  \/ ApplyFluencyFromText
  \/ ApplyVocabulary
  \/ ApplyNLPVocabulary

AnalyzeSpec == Init /\ [][AnalyzeNext]_vars

\* The positions of the hint's tokens that the text contains as a word or as
\* a synonym
tokensPresent(text, expectedAnswer) ==
  LET userWords == wordsOf(text)
      expectedWords == wordsOf(expectedAnswer)
  IN {e \in 1..Len(expectedWords) :
        \E u \in 1..Len(userWords) :
          \/ includes(userWords[u], expectedWords[e])
          \/ areSynonyms(userWords[u], expectedWords[e])}

\* C12: for a fixed hint and two transcripts (neither of them blank) with
\* the same number of words, if the first contains (as a word or as a
\* synonym) every hint token the second contains, the relevance of the
\* first is not lower than the relevance of the second.
C12_RelevanceMonotone ==
  ( /\ aggOp = "analyzeContentFree"
    /\ aggIn.expectedAnswer # "none"
    /\ trim(Transcript[aggIn.userResponse]) # <<>> ) =>
    LET hint == Hint[aggIn.expectedAnswer]
        text == Transcript[aggIn.userResponse]
    IN \A t \in TranscriptIds :
         LET other == Transcript[t]
             relevance == contentOf[other][hint][questionOf(aggIn.question)]
                                   [aggIn.section].relevance
         IN ( /\ trim(other) # <<>>
              /\ Len(wordsOf(other)) = Len(wordsOf(text))
              /\ tokensPresent(other, hint) \subseteq tokensPresent(text, hint) )
              => aggOut.relevance.num * relevance.den
                   >= relevance.num * aggOut.relevance.den

\* C13: the call of section A, with no recording, on the transcript of the
\* software developer with the hint "professional background, skills,
\* goals" resolves with grammar >= 80 and vocabulary >= 75, and with a
\* comprehension strictly higher than the comprehension of the same call on
\* "The weather is nice today.".
C13_DeveloperExample ==
  \A c \in Calls :
    ( /\ pc[c] = "resolved"
      /\ input[c].fault = "none"
      /\ input[c].section = "A"
      /\ input[c].audioBlob = "none"
      /\ input[c].expectedAnswer = "background"
      /\ input[c].userResponse = "developer" ) =>
      LET unrelated == assessAlone([input[c] EXCEPT
                                      !.userResponse = "weather"])
      IN /\ IsScore(result[c].grammar)
         /\ result[c].grammar.val.num >= 80
         /\ IsScore(result[c].vocabulary)
         /\ result[c].vocabulary.val.num >= 75
         /\ IsScore(result[c].comprehension)
         /\ IsScore(unrelated.comprehension)
         /\ result[c].comprehension.val.num > unrelated.comprehension.val.num

\* The call on the developer's transcript resolved with grammar 90,
\* vocabulary 100 and comprehension 100
C13_Witness ==
  /\ pc[1] = "resolved"
  /\ input[1] = [section |-> "A", userResponse |-> "developer",
                 audioBlob |-> "none", expectedAnswer |-> "background",
                 question |-> "yourself", fault |-> "none"]
  /\ result[1].grammar = Number(Frac(90, 1))
  /\ result[1].vocabulary = Number(Frac(100, 1))
  /\ result[1].comprehension = Number(Frac(100, 1))

grammarFormula(text) ==
  LET t == trim(text)
      capital == t # <<>> /\ t[1] \in UpperSet
      punctuated == t # <<>> /\ t[Len(t)] \in SentenceEnd
      IsWord(w) == w # <<>>
      nWords == Len(SelectSeq(wordsOf(text), IsWord))
      nSentences == Max(Len(splitSentences(text)), 1)
      penalties ==
        [k \in 1..Len(commonErrors) |->
           IF testWord(text, commonErrors[k].pattern)
             THEN commonErrors[k].penalty ELSE 0]
      conjunction ==
        \E k \in 1..Len(grammarConjunctions) :
          includes(toLowerCase(text), grammarConjunctions[k])
  IN Clamp(0, 100,
           85 - (IF capital THEN 0 ELSE 5) - (IF punctuated THEN 0 ELSE 5)
              - SumSeq(penalties)
              - (IF nWords < 5 * nSentences THEN 5
                 ELSE IF nWords > 25 * nSentences THEN 3 ELSE 0)
              + (IF conjunction THEN 5 ELSE 0))

grammarFormulaOf == [text \in Texts |-> grammarFormula(text)]

\* C15: the grammar score of a text is the score of the grammar formula; the
\* catalogue has 12 patterns with penalties between 5 and 10; and a
\* capitalised, punctuated text that matches exactly one pattern scores 85
\* minus the penalty of that pattern minus the deductions for its sentence
\* length, plus the conjunction bonus.
C15_GrammarFormula ==
  aggOp = "analyzeGrammarFree" =>
    LET n == Len(aggIn)
        text == Transcript[aggIn[n]]
        matched == matchedErrors(text)
    IN /\ aggOut[n].score = grammarFormulaOf[text]
       /\ Len(commonErrors) = 12
       /\ \A k \in 1..Len(commonErrors) : commonErrors[k].penalty \in 5..10
       /\ ( /\ startsWithCapital(text)
            /\ endsWithPunctuation(text)
            /\ Cardinality(matched) = 1 ) =>
            \E k \in matched :
              aggOut[n].score - (85 - commonErrors[k].penalty)
                \in {-5, -3, 0, 2, 5}

\* The analyzer was called on "He don't like coffee.", one pattern of
\* penalty 8 and fewer than 5 words per sentence, and on the text that
\* matches all 12 patterns
C15_Witness ==
  /\ aggOp = "analyzeGrammarFree"
  /\ aggIn = <<"errors", "rambling", "coffee">>
  /\ aggOut[1].score = 0
  /\ aggOut[2].score = 77
  /\ aggOut[3].score = 72

\* The text proxy of the pronunciation: 75, plus 10 for more than 15 words
\* or 5 for more than 10, plus 5 if some word is longer than 6 characters,
\* plus 5 if some word is in the academic or the professional list
pronunciationProxy(text) ==
  LET words == splitWhitespace(text)
      n == Len(words)
  IN 75
     + (IF n > 15 THEN 10 ELSE IF n > 10 THEN 5 ELSE 0)
     + (IF \E i \in 1..n : Len(words[i]) > 6 THEN 5 ELSE 0)
     + (IF \E i \in 1..n :
             toLowerCase(words[i])
               \in SeqRange(academicWords) \cup SeqRange(professionalWords)
          THEN 5 ELSE 0)

pronunciationProxyOf == [text \in Texts |-> pronunciationProxy(text)]

\* C16: when no analyzer fails, a call resolves with grammar = the rounded
\* score of the Grammar Analyzer, vocabulary = the rounded score of the
\* Vocabulary Analyzer, comprehension = the rounded relevance of the Content
\* Analyzer, and pronunciation = the rounded clarity of the recording when
\* it was decoded and otherwise the text proxy, which lies in [75,95].
C16_CombinerMapping ==
  \A c \in Calls :
    (pc[c] = "resolved" /\ input[c].fault = "none") =>
      LET text == Transcript[input[c].userResponse]
          content == contentOf[text][expectedAnswerOf(input[c].expectedAnswer)]
                              [questionOf(input[c].question)][input[c].section]
      IN /\ result[c].grammar = Number(Frac(grammarOf[text].score, 1))
         /\ result[c].vocabulary = Number(Frac(vocabularyOf[text].score, 1))
         /\ result[c].comprehension =
              Number(Frac(RoundFrac(content.relevance), 1))
         /\ IF input[c].audioBlob \in DecodableBlobs
              THEN result[c].pronunciation =
                     Number(Frac(RoundFrac(extractAudioMetrics(
                                             input[c].audioBlob).clarity), 1))
              ELSE /\ result[c].pronunciation =
                        Number(Frac(pronunciationProxyOf[text], 1))
                   /\ pronunciationProxyOf[text] \in 75..95

\* A call without recording resolved with the proxy 80 of "He don't like
\* coffee." (the word "coffee." has 7 characters), and with the
\* comprehension 50 of a hint none of whose tokens matched
C16_Witness ==
  \E c \in Calls :
    /\ pc[c] = "resolved"
    /\ input[c].fault = "none"
    /\ input[c].audioBlob = "none"
    /\ input[c].userResponse = "coffee"
    /\ result[c].pronunciation = Number(Frac(80, 1))
    /\ result[c].grammar = Number(Frac(72, 1))
    /\ result[c].comprehension = Number(Frac(50, 1))

\* lo <= f <= hi for a fraction f and integers lo, hi
fracWithin(f, lo, hi) == lo * f.den <= f.num /\ f.num <= hi * f.den

\* C17: the fluency computed from the metrics of a recording is 90 for a
\* rate in [140,180], else 80 in [120,200], else 70 in [100,220], else 60;
\* then plus 5 for a pause ratio strictly between 0.1 and 0.3, or minus 10
\* for a pause ratio above 0.4; capped at 100; and it lies in [50,95].
C17_FluencyFromRate ==
  aggOp = "calculateFluencyFromRate" =>
    LET rate == aggIn.speakingRate
        pause == aggIn.pauseRatio
        base == IF fracWithin(rate, 140, 180) THEN 90
                ELSE IF fracWithin(rate, 120, 200) THEN 80
                ELSE IF fracWithin(rate, 100, 220) THEN 70 ELSE 60
        change == IF pause.den < 10 * pause.num /\ 10 * pause.num < 3 * pause.den
                    THEN 5
                  ELSE IF 4 * pause.den < 10 * pause.num THEN -10 ELSE 0
    IN /\ aggOut = Min(100, base + change)
       /\ aggOut \in 50..95

\* A rate of 100 words per minute with a pause ratio of 0.41: 70 - 10
C17_Witness ==
  /\ aggOp = "calculateFluencyFromRate"
  /\ aggIn = [speakingRate |-> Frac(100, 1), pauseRatio |-> Frac(41, 100)]
  /\ aggOut = 60

\* The fluency of a text without a recording, from the words of C18.  The
\* words of the text are its whitespace-separated words, the sentences its
\* non-blank pieces between . ! ?, and an occurrence of a filler or of a
\* conjunction is a match of the word between word boundaries.
fluencyFormula(text) ==
  LET IsWord(w) == w # <<>>
      nWords == Len(SelectSeq(splitWhitespace(text), IsWord))
      nSentences == Max(Len(splitSentences(text)), 1)
      fillers == countWordMatches(text, fillerWords)
      conjunctions == countWordMatches(text, fluencyConjunctions)
  IN Clamp(40, 100,
           70 + (IF nWords > 20 THEN 15
                 ELSE IF nWords > 15 THEN 10
                 ELSE IF nWords > 10 THEN 5 ELSE 0)
              - 3 * fillers
              + (IF nWords > 12 * nSentences THEN 10
                 ELSE IF nWords > 8 * nSentences THEN 5 ELSE 0)
              + Min(10, 2 * conjunctions))

fluencyFormulaOf == [text \in Texts |-> fluencyFormula(text)]

vocabularyFormula(text) ==
  LET words == matchLetterRuns(toLowerCase(text))
      total == Len(words)
      den == Max(total, 1)
      types == SeqRange(words)
      letters == SumSeq([i \in 1..total |-> Len(words[i])])
      advanced ==
        Cardinality({i \in 1..total :
                       \/ Len(words[i]) >= 7
                       \/ isAcademicWord(words[i])
                       \/ isProfessionalWord(words[i])})
      occurrences(w) == Cardinality({i \in 1..total : words[i] = w})
      repeated == {w \in types : Len(w) > 3 /\ occurrences(w) > 2}
      diversityTier == IF 10 * Cardinality(types) > 8 * den THEN 25
                       ELSE IF 10 * Cardinality(types) > 6 * den THEN 20
                       ELSE IF 10 * Cardinality(types) > 4 * den THEN 15
                       ELSE IF 10 * Cardinality(types) > 2 * den THEN 10
                       ELSE 0
      lengthTier == IF letters > 6 * den THEN 15
                    ELSE IF letters > 5 * den THEN 10
                    ELSE IF letters > 4 * den THEN 5 ELSE 0
      advancedTier == IF 10 * advanced > 3 * den THEN 15
                      ELSE IF 10 * advanced > 2 * den THEN 10
                      ELSE IF 10 * advanced > den THEN 5 ELSE 0
  IN Clamp(0, 100,
           60 + diversityTier + lengthTier + advancedTier
              - 3 * Cardinality(repeated))

vocabularyFormulaOf == [text \in Texts |-> vocabularyFormula(text)]

\* C19: the vocabulary score of a transcript is the score of the vocabulary
\* formula: 60 plus one tier each for lexical diversity, average word length
\* and advanced-word ratio, minus 3 for every distinct word of more than 3
\* letters that occurs more than twice, clamped to [0,100].
C19_VocabularyFormula ==
  aggOp = "analyzeVocabularyFree" =>
    aggOut.score = vocabularyFormulaOf[Transcript[aggIn]]

\* The fraction f is the number 0
IsZero(f) == f.den # 0 /\ f.num = 0

\* C20: for the empty transcript analyzeVocabularyFree and
\* NLPAnalyzer.analyzeVocabulary both report word count 0, lexical diversity
\* 0 and average word length 0, and the base score (60 and 50) with no
\* bonus.
C20_NoDivisionByZero ==
  /\ (aggOp = "analyzeVocabularyFree" /\ Transcript[aggIn] = <<>>) =>
       /\ aggOut.metrics.totalWords = 0
       /\ IsZero(aggOut.metrics.lexicalDiversity)
       /\ IsZero(aggOut.metrics.avgWordLength)
       /\ aggOut.score = 60
  /\ (aggOp = "NLPAnalyzer.analyzeVocabulary" /\ Transcript[aggIn] = <<>>) =>
       /\ aggOut.totalWords = 0
       /\ IsZero(aggOut.lexicalDiversity)
       /\ IsZero(aggOut.averageWordLength)
       /\ aggOut.score = 50

\* ------------------------------------------------------------------------
\* Content signals, sections and sessions
\* ------------------------------------------------------------------------

\* a = b for fractions
FracEq(a, b) == a.num * b.den = b.num * a.den

\* C21: without a hint the relevance is exactly 70; with a hint of n tokens
\* of which m are matched (some word of the transcript contains the token
\* or is a synonym of it) the relevance is min(100, 50 + 50 * m / n): it
\* lies in [50,100], is 50 when no token is matched and is 100 only when
\* all are matched.
C21_RelevanceFormula ==
  aggOp = "analyzeContentFree" =>
    LET text == Transcript[aggIn.userResponse]
        relevance == aggOut.relevance
    IN IF aggIn.expectedAnswer = "none"
         THEN FracEq(relevance, Frac(70, 1))
         ELSE LET hint == Hint[aggIn.expectedAnswer]
                  n == Len(wordsOf(hint))
                  m == Cardinality(tokensPresent(text, hint))
              IN /\ FracEq(relevance, MinFrac(100, Frac(50 * n + 50 * m, n)))
                 /\ 50 * relevance.den <= relevance.num
                 /\ relevance.num <= 100 * relevance.den
                 /\ m = 0 => FracEq(relevance, Frac(50, 1))
                 /\ FracEq(relevance, Frac(100, 1)) => m = n

\* The completeness analyzeContentFree gives the text under a section
completenessOf(text, section) ==
  contentOf[text][Undefined][Undefined][section].completeness

\* The credit a section gives for the length of a text alone, from the
\* breakpoints (full, middle, low) of the section's table
lengthCredit(n, full, middle, low) ==
  IF n >= full THEN 30 ELSE IF n >= middle THEN 20
  ELSE IF n >= low THEN 10 ELSE 0

\* C22: completeness follows the per-section table: A +30/+20/+10 at 8/5/3
\* words; B +30/+20/+10 at 25/15/10 words, +5 for a situation word, +5 for
\* an action word; G +30/+20/+10 at 50/35/20 words, +10 for 4 sentences or
\* more; another section id and a missing section id use the same generic
\* table.  The value lies in [60,100], does not decrease with the word
\* count, and A never gives less length credit than G.
C22_CompletenessTable ==
  aggOp = "analyzeContentFree" =>
    LET text == Transcript[aggIn.userResponse]
        n == Len(wordsOf(text))
        section == aggIn.section
        value == aggOut.completeness
        situation == IF includesAny(text, situationWords) THEN 5 ELSE 0
        action == IF includesAny(text, actionWords) THEN 5 ELSE 0
        developed == IF Len(splitSentences(text)) >= 4 THEN 10 ELSE 0
    IN /\ section = "A" => value = 60 + lengthCredit(n, 8, 5, 3)
       /\ section = "B" =>
            value = 60 + lengthCredit(n, 25, 15, 10) + situation + action
       /\ section = "G" => value = 60 + lengthCredit(n, 50, 35, 20) + developed
       /\ section \in {"C", NoSection} =>
            /\ completenessOf(text, "C") = completenessOf(text, NoSection)
            /\ value = completenessOf(text, "C")
       /\ value \in 60..100
       /\ \A t \in TranscriptIds :
            LET other == Transcript[t]
            IN ( /\ Len(wordsOf(other)) >= n
                 /\ includesAny(other, situationWords) = (situation = 5)
                 /\ includesAny(other, actionWords) = (action = 5)
                 /\ Len(splitSentences(other)) = Len(splitSentences(text)) )
                 => completenessOf(other, section) >= value
       /\ lengthCredit(n, 8, 5, 3) >= lengthCredit(n, 50, 35, 20)

\* The first position at or after from where pat occurs in text, 0 if none
firstOccurrence(text, from, pat) ==
  LET at == {i \in from..(Len(text) + 1) : MatchAt(text, i, pat)}
  IN IF at = {} THEN 0 ELSE KthSmallest(at, 1)

\* The pieces occur in text one after the other, from position from on
RECURSIVE occurInOrder(_, _, _)
occurInOrder(text, from, pieces) ==
  \/ pieces = <<>>
  \/ LET p == firstOccurrence(text, from, Head(pieces))
     IN /\ p # 0
        /\ occurInOrder(text, p + Len(Head(pieces)), Tail(pieces))

\* Whether sequence kp holds pieces of the text, trimmed, in the text's order
verbatimInOrder(text, kp) ==
  /\ \A i \in 1..Len(kp) : kp[i] = trim(kp[i]) /\ kp[i] # <<>>
  /\ occurInOrder(text, 1, kp)

\* C23: for every transcript, hint and section the relevance, the
\* completeness and the coherence of the content analysis lie in [0,100];
\* the coherence is 70, plus 15 if a discourse connective of the list
\* appears, plus 10 if an example marker appears; and keyPoints holds at
\* most 3 sentences, each taken trimmed from the transcript, in the order
\* of the transcript.
C23_ContentSignals ==
  aggOp = "analyzeContentFree" =>
    LET text == Transcript[aggIn.userResponse]
        lowered == toLowerCase(text)
        connective ==
          \E k \in 1..Len(transitionWords) : includes(lowered, transitionWords[k])
        example ==
          \E k \in 1..Len(exampleMarkers) : includes(lowered, exampleMarkers[k])
    IN /\ 0 <= aggOut.relevance.num
       /\ aggOut.relevance.num <= 100 * aggOut.relevance.den
       /\ aggOut.completeness \in 0..100
       /\ aggOut.coherence \in 0..100
       /\ aggOut.coherence
            = 70 + (IF connective THEN 15 ELSE 0) + (IF example THEN 10 ELSE 0)
       /\ Len(aggOut.keyPoints) <= 3
       /\ verbatimInOrder(text, aggOut.keyPoints)

\* The analysis of the four sentences of "First we plan the work. ...":
\* coherence 95 and the first three sentences as key points
C23_Witness ==
  /\ aggOp = "analyzeContentFree"
  /\ aggIn.userResponse = "steps"
  /\ Len(splitSentences(Transcript[aggIn.userResponse])) = 4
  /\ aggOut.coherence = 95
  /\ Len(aggOut.keyPoints) = 3
  /\ aggOut.keyPoints[3]
       = <<"N","e","x","t"," ","w","e"," ","t","e","s","t"," ","t","h","e",
           " ","w","h","o","l","e">>

assessedParametersOf ==
  [section \in {"A", "B", "C", "G"} |->
     [userResponse \in SimulatedResponses |->
        assessAlone([section |-> section,
                     userResponse |-> userResponse,
                     audioBlob |-> "clear",
                     expectedAnswer |-> "background",
                     question |-> "yourself",
                     fault |-> "none"])]]

assessedParameters(response) ==
  assessedParametersOf[engineSection(response.section)][response.userResponse]

\* startRecording; MediaRecorder.start() throws while recording
startRecording ==
  /\ completion.pc = "idle"
  /\ recorder.state = "inactive"
  /\ recorder' = [recorder EXCEPT !.state = "recording"]
  /\ UNCHANGED <<currentSection, responses, currentTestSession, saveCalls,
                 completion, stored, now, saveLog, outsidePage>>

\* handleSaveResponse up to its await: stopRecording installs the resolve of
\* this call as ondataavailable and stops the recorder.  Stopping a recorder
\* that records makes it inactive and queues a dataavailable event; stopping
\* an inactive recorder does nothing or, in browsers that follow the older
\* specification, throws, which rejects the promise awaited.
handleSaveResponse(questionIndex) ==
  /\ completion.pc = "idle"
  /\ Len(saveCalls) < MaxSaves
  /\ LET call == Len(saveCalls) + 1
         closure == [responses |-> responses, section |-> currentSection,
                     questionIndex |-> questionIndex]
     IN IF recorder.state = "recording"
          THEN /\ recorder' = [state |-> "inactive", ondataavailable |-> call,
                               events |-> recorder.events + 1]
               /\ saveCalls' = Append(saveCalls, closure @@ [pc |-> "awaiting"])
          ELSE /\ recorder' = [recorder EXCEPT !.ondataavailable = call]
               /\ \E outcome \in {"awaiting", "rejected"} :
                    saveCalls' = Append(saveCalls, closure @@ [pc |-> outcome])
  /\ UNCHANGED <<currentSection, responses, currentTestSession, completion,
                 stored, now, saveLog, outsidePage>>

\* A dataavailable event: the handler installed last resolves its promise,
\* and the call that awaits it goes on in the same turn to
\* setResponses([...responses, newResponse]) with the responses of its
\* closure
dataAvailable ==
  /\ recorder.events > 0
  /\ now < MaxClock
  /\ recorder' = [recorder EXCEPT !.events = @ - 1]
  /\ LET call == recorder.ondataavailable
     IN IF saveCalls[call].pc = "awaiting"
          THEN \E userResponse \in SimulatedResponses :
                 LET newResponse ==
                       [section |-> saveCalls[call].section,
                        questionIndex |-> saveCalls[call].questionIndex,
                        audioBlob |-> "clear",
                        timestamp |-> now,
                        userResponse |-> userResponse]
                 IN /\ responses' = Append(saveCalls[call].responses, newResponse)
                    /\ saveLog' = Append(saveLog, newResponse)
                    /\ saveCalls' = [saveCalls EXCEPT ![call].pc = "done"]
                    /\ now' = now + 1
          ELSE UNCHANGED <<responses, saveLog, saveCalls, now>>
  /\ UNCHANGED <<currentSection, currentTestSession, completion, stored,
                 outsidePage>>

\* saveTestSession from the await of the assessResponse of response number
\* k of section number i on: the code that runs when that promise fulfils
\* with params, up to the next await or to the end of the function.
\* Completed(list, session, scores): the end of the function, updateTest.
completionAfter(c, i, k, sum, scores) ==
  LET list == c.responses
      mine == responsesBySection(list, PageSections[i])
  IN IF k <= Len(mine)
       THEN [c EXCEPT !.pc = "assessing", !.section = i, !.response = k,
                      !.sum = sum, !.sectionScores = scores]
       ELSE LET pushed == Append(scores,
                                 sectionScoreOf(PageSections[i], sum, Len(mine)))
                j == nextSectionWithResponses(list, i + 1)
            IN IF j = 0
                 THEN [c EXCEPT !.pc = "done", !.section = 0, !.response = 0,
                                !.sum = zeroParameters,
                                !.sectionScores = pushed]
                 ELSE [c EXCEPT !.pc = "assessing", !.section = j,
                                !.response = 1, !.sum = zeroParameters,
                                !.sectionScores = pushed]

\* updateTest(currentTestSession.id, {status, totalScore, sectionScores,
\* responses})
updateOf(c) ==
  [id |-> c.session, status |-> "completed",
   totalScore |-> calculateOverallScore(c.sectionScores),
   sectionScores |-> c.sectionScores, responses |-> c.responses]

\* handleNextSection: the next section, or after the last one
\* saveTestSession up to its first await (with no response saved, to its
\* end)
handleNextSection ==
  /\ completion.pc = "idle"
  /\ LET i == indexOfSection(currentSection)
     IN IF i < Len(PageSections)
          THEN /\ currentSection' = PageSections[i + 1]
               /\ UNCHANGED <<completion, stored>>
          ELSE LET c == [idleCompletion EXCEPT !.responses = responses,
                                               !.session = currentTestSession]
                   j == nextSectionWithResponses(responses, 1)
                   next == IF j = 0 THEN [c EXCEPT !.pc = "done"]
                           ELSE [c EXCEPT !.pc = "assessing", !.section = j,
                                          !.response = 1]
               IN /\ completion' = next
                  /\ stored' = IF next.pc = "done" THEN updateOf(next) ELSE stored
                  /\ UNCHANGED currentSection
  /\ UNCHANGED <<responses, currentTestSession, recorder, saveCalls, now,
                 saveLog, outsidePage>>

\* saveTestSession resumed by the assessResponse it awaits
assessmentResolved ==
  /\ completion.pc = "assessing"
  /\ \E params \in {assessedParameters(
                       responsesBySection(completion.responses,
                                          PageSections[completion.section])
                         [completion.response])} :
       \E sum \in {[d \in Dimensions |->
                      completion.sum[d]
                        + params[d].val.num \div params[d].val.den]} :
         \E next \in {completionAfter(completion, completion.section,
                                      completion.response + 1, sum,
                                      completion.sectionScores)} :
           /\ completion' = next
           /\ stored' = IF next.pc = "done" THEN updateOf(next) ELSE stored
  /\ UNCHANGED <<currentSection, responses, currentTestSession, recorder,
                 saveCalls, now, saveLog, outsidePage>>

\* handleRegenerateQuestions: createNewTest gives the session the id
\* Date.now()
handleRegenerateQuestions ==
  /\ completion.pc = "idle"
  /\ now < MaxClock
  /\ currentTestSession' = now
  /\ now' = now + 1
  /\ responses' = <<>>
  /\ currentSection' = "A"
  /\ UNCHANGED <<recorder, saveCalls, completion, stored, saveLog,
                 outsidePage>>

PageNext ==
  \/ startRecording
  \/ \E questionIndex \in {0} : handleSaveResponse(questionIndex)
  \/ dataAvailable
  \/ handleNextSection
  \/ assessmentResolved
  \/ handleRegenerateQuestions

PageSpec == Init /\ [][PageNext]_vars

\* The sections of the entries of a list of SectionScore records, in order
sectionsOf(sectionScores) ==
  [k \in 1..Len(sectionScores) |-> sectionScores[k].section]

\* The sections of the page that have a response in the list, in page order
sectionsWithResponses(list) ==
  LET Has(section) == Len(responsesBySection(list, section)) > 0
  IN SelectSeq(PageSections, Has)

\* A SectionScore whose score is the rounded mean of its five parameters
ScoreIsRoundedMean(entry) ==
  LET p == entry.parameters
  IN \E den \in {p["fluency"].den} :
       /\ \A d \in Dimensions : p[d].den = den
       /\ entry.score
            = MathRound(p["fluency"].num + p["pronunciation"].num
                        + p["grammar"].num + p["vocabulary"].num
                        + p["comprehension"].num, 5 * den)

\* Five integers in [0,100]
AreScoringParameters(p) ==
  \A d \in Dimensions :
    /\ p[d].num % p[d].den = 0
    /\ 0 <= p[d].num
    /\ p[d].num <= 100 * p[d].den

savedInSession ==
  LET Since(r) == r.timestamp >= currentTestSession
  IN SelectSeq(saveLog, Since)

\* C28: the responses list holds every response saved through
\* handleSaveResponse exactly once and in save order, whatever the
\* interleaving of the calls of handleSaveResponse, the section changes and
\* the completion: no saved response is lost or overwritten, the list used
\* at completion is that list, and after handleRegenerateQuestions the list
\* holds only responses saved afterwards.
C28_SavedResponsesKept ==
  /\ responses = savedInSession
  /\ completion.pc # "idle" => completion.responses = savedInSession

\* ---------------------------------------------------------------------
\* The operations of the TestSessionManager
\* ---------------------------------------------------------------------

\* What the page passes to updateTest when a test is completed
SessionUpdates == {[status |-> "completed", totalScore |-> 80]}

\* { ...session, ...updates }
mergeSession(session, updates) ==
  [k \in DOMAIN session |->
     IF k \in DOMAIN updates THEN updates[k] ELSE session[k]]

\* sessions.findIndex(s => s.id === sessionId), 0 for -1
findSessionIndex(sessions, sessionId) ==
  IF \E i \in 1..Len(sessions) : sessions[i].id = sessionId
  THEN CHOOSE i \in 1..Len(sessions) :
         /\ sessions[i].id = sessionId
         /\ \A j \in 1..(i - 1) : sessions[j].id # sessionId
  ELSE 0

\* Two creations are at least a millisecond apart, so the ids differ
createNewTestSession ==
  /\ creates < MaxCreates
  /\ \E random \in RandomDraws :
       \E recentlyUsed \in {getRecentlyUsedQuestionSets(history)} :
         \E session \in {newSession(sessionTime, generateTestQuestions(recentlyUsed, random))} :
           /\ history' = historyWith(history, session)
           /\ created' = [session |-> session,
                          recent |-> lastOf(history.sessions, RecentSessions)]
  /\ sessionTime' = sessionTime + 1
  /\ creates' = creates + 1
  /\ UNCHANGED outsideSessions

updateTestSession(sessionId, updates) ==
  /\ findSessionIndex(history.sessions, sessionId) # 0
  /\ \E sessionIndex \in {findSessionIndex(history.sessions, sessionId)} :
       history' = [history EXCEPT !.sessions[sessionIndex] = mergeSession(@, updates)]
  /\ UNCHANGED <<created, sessionTime, creates, outsideSessions>>

resetHistory ==
  /\ history' = emptyHistory
  /\ UNCHANGED <<created, sessionTime, creates, outsideSessions>>

SessionNext ==
  \/ createNewTestSession
  \/ \E sessionId \in {c.session.id : c \in {created} \ {Null}} :
       \E updates \in SessionUpdates : updateTestSession(sessionId, updates)
  \/ resetHistory

\* The manager constructed on either content of localStorage
SessionStart ==
  /\ CallInit
  /\ PageInit
  /\ SessionInitStored
  /\ SpeechInit
  /\ ListenInit

SessionSpec == SessionStart /\ [][SessionNext]_vars

setIdsOf(section) ==
  {getAllQuestionSets[section][i] : i \in 1..Len(getAllQuestionSets[section])}

usedBy(sessions) ==
  {sessions[i].questionSets[section] :
     i \in 1..Len(sessions), section \in DOMAIN getAllQuestionSets}

\* C27: the session createNewTestSession made has a question set of the
\* section for each of the sections A to G, and that set is not one stored by
\* any of the 5 sessions created before it, unless those sessions store every
\* set of the section.
C27_RecentSetsAvoided ==
  created # Null =>
    /\ DOMAIN created.session.questionSets = {"A", "B", "C", "D", "E", "F", "G"}
    /\ \A section \in DOMAIN created.session.questionSets :
         /\ created.session.questionSets[section] \in setIdsOf(section)
         /\ \/ created.session.questionSets[section] \notin usedBy(created.recent)
            \/ setIdsOf(section) \subseteq usedBy(created.recent)

\* A creation after 5 sessions that used all 5 sets of section A but not
\* all 7 of section G
C27_Witness ==
  /\ created # Null
  /\ Len(created.recent) = RecentSessions
  /\ setIdsOf("A") \subseteq usedBy(created.recent)
  /\ ~(setIdsOf("G") \subseteq usedBy(created.recent))
  /\ created.session.questionSets["G"] \notin usedBy(created.recent)

\* ---------------------------------------------------------------------
\* FreeSpeechRecognition: its methods and the events of the recognition
\* ---------------------------------------------------------------------

\* The transcripts of the given results, one after the other
RECURSIVE joinTranscripts(_)
joinTranscripts(results) ==
  IF results = <<>> THEN <<>>
  ELSE results[1].transcript \o joinTranscripts(Tail(results))

finalResults(results) ==
  LET IsFinal(r) == r.isFinal
  IN SelectSeq(results, IsFinal)

interimResults(results) ==
  LET IsInterim(r) == ~r.isFinal
  IN SelectSeq(results, IsInterim)

\* processResults: the loop runs from i = 0 over event.results and appends
\* the transcript of each final result to this.finalTranscript; the interim
\* transcript is replaced by the one of this event
processResults(speech, results) ==
  [speech EXCEPT
     !.finalTranscript = @ \o joinTranscripts(finalResults(results)),
     !.interimTranscript = joinTranscripts(interimResults(results))]

\* What the recognition may hold after the results given, when it reports
\* a result: the last result, if interim, is replaced by a final or another
\* interim one, or a result is added after a final one. Final results stay.
laterResults(results) ==
  LET n == Len(results)
      last == {[transcript |-> t, isFinal |-> f] :
                 t \in ResultTranscripts, f \in BOOLEAN}
  IN IF n > 0 /\ ~results[n].isFinal
     THEN {[results EXCEPT ![n] = r] : r \in last \ {results[n]}}
     ELSE {Append(results, r) : r \in last}

\* startListening(): the promise is rejected without a recognition and
\* resolved at once while listening; otherwise the two transcripts are
\* emptied and recognition.start() is called, which throws unless the
\* recognition is idle
Free_startListening ==
  /\ startPromise.calls < MaxStarts
  /\ IF ~recognition.exists
     THEN /\ startPromise' = [calls |-> startPromise.calls + 1, state |-> "rejected"]
          /\ UNCHANGED <<recognition, freeSpeech>>
     ELSE IF freeSpeech.isListening
     THEN /\ startPromise' = [calls |-> startPromise.calls + 1, state |-> "resolved"]
          /\ UNCHANGED <<recognition, freeSpeech>>
     ELSE /\ freeSpeech' = [freeSpeech EXCEPT !.finalTranscript = <<>>,
                                              !.interimTranscript = <<>>]
          /\ IF recognition.state = "idle"
             THEN /\ recognition' = [recognition EXCEPT !.state = "starting",
                                                        !.results = <<>>,
                                                        !.events = 0]
                  /\ startPromise' = [calls |-> startPromise.calls + 1, state |-> "resolved"]
             ELSE /\ startPromise' = [calls |-> startPromise.calls + 1, state |-> "rejected"]
                  /\ UNCHANGED recognition
  /\ UNCHANGED outsideSpeech

\* recognition.onstart
Free_onstart ==
  /\ recognition.state = "starting"
  /\ recognition' = [recognition EXCEPT !.state = "running"]
  /\ freeSpeech' = [freeSpeech EXCEPT !.isListening = TRUE]
  /\ UNCHANGED <<startPromise, outsideSpeech>>

\* recognition.onresult: the recognition reports its results
Free_onresult ==
  /\ recognition.state \in {"running", "stopping"}
  /\ recognition.events < MaxEvents
  /\ \E results \in laterResults(recognition.results) :
       /\ recognition' = [recognition EXCEPT !.results = results,
                                             !.events = @ + 1]
       /\ freeSpeech' = processResults(freeSpeech, results)
  /\ UNCHANGED <<startPromise, outsideSpeech>>

\* stopListening()
Free_stopListening ==
  /\ recognition.exists /\ freeSpeech.isListening
  /\ recognition.state = "running"
  /\ recognition' = [recognition EXCEPT !.state = "stopping"]
  /\ UNCHANGED <<freeSpeech, startPromise, outsideSpeech>>

\* recognition.onend: the recognition ended, stopped or by itself
Free_onend ==
  /\ recognition.state # "idle"
  /\ recognition' = [recognition EXCEPT !.state = "idle"]
  /\ freeSpeech' = [freeSpeech EXCEPT !.isListening = FALSE]
  /\ UNCHANGED <<startPromise, outsideSpeech>>

SpeechNext ==
  \/ Free_startListening
  \/ Free_onstart
  \/ Free_onresult
  \/ Free_stopListening
  \/ Free_onend

\* The recognizer constructed in a browser with or without SpeechRecognition
SpeechStart ==
  /\ CallInit
  /\ PageInit
  /\ SessionInit
  /\ \E exists \in BOOLEAN : SpeechInitIn(exists)
  /\ ListenInit

SpeechSpec == SpeechStart /\ [][SpeechNext]_vars

getFinalTranscript == freeSpeech.finalTranscript

\* C29: getFinalTranscript is the transcripts of the final results the
\* recognition has reported since the last startListening, in their order,
\* each of them once.
C29_FinalResultsOnce ==
  getFinalTranscript = joinTranscripts(finalResults(recognition.results))

\* ---------------------------------------------------------------------
\* RealTimeSpeechToText: its methods and the events of its provider
\* ---------------------------------------------------------------------

\* startWebSpeechListening() followed, with a recognition, by
\* WebSpeechSTT.startListening: recognition.start() throws while the
\* recognition of an earlier start has not ended
startWebSpeechListening ==
  IF ~webSpeech.recognition
  THEN /\ reported' = "onError"
       /\ attempt' = "failed"
       /\ UNCHANGED <<webSpeech, streaming>>
  ELSE /\ webSpeech' = [webSpeech EXCEPT
                          !.isListening = TRUE,
                          !.state = IF @ = "idle" THEN "running" ELSE @]
       /\ attempt' = IF webSpeech.state = "idle" THEN "started" ELSE "threw"
       /\ UNCHANGED <<reported, streaming>>

\* startGoogleStreaming() up to its await of getUserMedia
startGoogleStreaming ==
  /\ streaming' = [streaming EXCEPT !.getUserMedia = @ + 1]
  /\ attempt' = "pending"
  /\ UNCHANGED <<webSpeech, reported>>

\* startListening(): nothing while listening; otherwise isListening is set
\* and the provider of the config is started
RealTime_startListening ==
  /\ realTime.calls < MaxListenCalls
  /\ ~realTime.isListening
  /\ realTime' = [realTime EXCEPT !.isListening = TRUE, !.calls = @ + 1]
  /\ IF realTime.provider = "webspeech"
     THEN startWebSpeechListening
     ELSE startGoogleStreaming
  /\ UNCHANGED outsideListening

\* The rest of startGoogleStreaming, getUserMedia having given a stream: the
\* connection is made and setupAudioStreaming starts a MediaRecorder
getUserMediaResolved ==
  /\ streaming.getUserMedia > 0
  /\ streaming' = [getUserMedia |-> streaming.getUserMedia - 1,
                   mediaRecorder |-> "recording",
                   streamingConnection |-> "open"]
  /\ attempt' = "started"
  /\ UNCHANGED <<realTime, webSpeech, reported, outsideListening>>

\* The catch of startGoogleStreaming: getUserMedia was refused, or the
\* WebSocket or the MediaRecorder could not be made
getUserMediaRejected ==
  /\ streaming.getUserMedia > 0
  /\ streaming' = [streaming EXCEPT !.getUserMedia = @ - 1]
  /\ reported' = "onError"
  /\ attempt' = "failed"
  /\ UNCHANGED <<realTime, webSpeech, outsideListening>>

\* stopListening(): nothing while not listening; otherwise isListening is
\* cleared and the provider is stopped. MediaRecorder.stop() on a recorder
\* already inactive does nothing or throws, depending on the browser, and
\* then close() is not reached.
RealTime_stopListening ==
  /\ realTime.isListening
  /\ realTime' = [realTime EXCEPT !.isListening = FALSE]
  /\ IF realTime.provider = "webspeech"
     THEN /\ webSpeech' =
               IF webSpeech.recognition /\ webSpeech.isListening
               THEN [webSpeech EXCEPT
                       !.isListening = FALSE,
                       !.state = IF @ = "running" THEN "stopping" ELSE @]
               ELSE webSpeech
          /\ UNCHANGED streaming
     ELSE /\ \E throws \in {FALSE} \cup {streaming.mediaRecorder = "inactive"} :
               streaming' =
                 IF throws THEN streaming
                 ELSE [streaming EXCEPT
                         !.mediaRecorder = IF @ = "none" THEN @ ELSE "inactive",
                         !.streamingConnection = IF @ = "none" THEN @ ELSE "closed"]
          /\ UNCHANGED webSpeech
  /\ UNCHANGED <<attempt, reported, outsideListening>>

\* A result of the provider: recognition.onresult or streamingConnection
\* .onmessage call onFinalResult or onInterimResult of the config
providerResult ==
  /\ \/ webSpeech.state = "running"
     \/ streaming.streamingConnection = "open"
  /\ \E callback \in {"onFinalResult", "onInterimResult"} :
       reported' = callback
  /\ UNCHANGED <<realTime, webSpeech, streaming, attempt, outsideListening>>

\* An error of the provider: recognition.onerror or streamingConnection
\* .onerror call onError of the config
providerError ==
  /\ \/ webSpeech.state # "idle"
     \/ streaming.streamingConnection = "open"
  /\ reported' = "onError"
  /\ UNCHANGED <<realTime, webSpeech, streaming, attempt, outsideListening>>

\* The recognition of the browser ended, stopped or by itself; WebSpeechSTT
\* sets no onend handler
recognitionEnded ==
  /\ webSpeech.state # "idle"
  /\ webSpeech' = [webSpeech EXCEPT !.state = "idle"]
  /\ UNCHANGED <<realTime, streaming, attempt, reported, outsideListening>>

ListenNext ==
  \/ RealTime_startListening
  \/ getUserMediaResolved
  \/ getUserMediaRejected
  \/ RealTime_stopListening
  \/ providerResult
  \/ providerError
  \/ recognitionEnded

\* The instance constructed for either provider, in a browser with or
\* without SpeechRecognition
ListenStart ==
  /\ CallInit
  /\ PageInit
  /\ SessionInit
  /\ SpeechInit
  /\ \E provider \in {"webspeech", "google-streaming"}, exists \in BOOLEAN :
       ListenInitIn(provider, exists)

ListenSpec == ListenStart /\ [][ListenNext]_vars

\* C30: an instance whose last attempt to start its provider failed and was
\* reported through onError is not listening.
C30_NotListeningAfterFailedStart ==
  attempt = "failed" => ~realTime.isListening

====
